---- MODULE Spec2Model ----
(***************************************************************************)
(* State-machine model of the plankton analysis runners:                   *)
(*   - the buffered capture/processing session of buffered_detection.py    *)
(*     (BufferedDetector: one producer loop, one worker thread, a bounded  *)
(*     frame queue, lock-guarded running statistics);                      *)
(*   - the stage-by-stage sample run of simulate_pipeline.py /             *)
(*     test_real_images.py and the entry points that validate the          *)
(*     configuration before building the pipeline;                         *)
(*   - the batch loop of batch_process.py.                                 *)
(* Each part has its own specification (SpecBuffered, SpecPipeline,        *)
(* SpecBatch); the variables of the other parts stay at their initial      *)
(* values.                                                                 *)
(***************************************************************************)
EXTENDS Integers, Sequences, FiniteSets, TLC

VARIABLES
    \* ---- buffered session (buffered_detection.py) ----
    queue_size,          \* maxsize of frame_queue
    frame_queue,         \* queue.Queue contents: sequence of frame numbers
    unfinished_tasks,    \* queue.Queue's put/task_done counter, read by join()
    results_queue,       \* sequence of frame numbers of the results put
    frames_captured,
    frames_processed,
    total_organisms,
    species_counts,      \* defaultdict(int): species -> count
    processing,          \* the worker's run flag
    lock,                \* holder of self.lock: "free", "producer", "worker"
    prod_pc,             \* position of record_and_process
    worker_pc,           \* position of processing_worker
    cur_frame,           \* frame number held by the worker, 0 when none
    result,              \* process_frame's return value held by the worker
    stop_reason,         \* why the recording loop ended
    queue_full_warnings, \* history: warnings logged at the queue.Full handler
    none_results,        \* history: process_frame calls that returned None
    unqueued,            \* history: frames counted, then interrupted before put
    dequeued,            \* history: frame numbers in the order they were got
    pass_kind,           \* history: how the pass on the frame in hand went
    summary,             \* the statistics printed by _print_summary
    \* ---- entry points and sample runs (main.py, simulate_pipeline.py,
    \*      test_real_images.py, test_with_real_images.py) ----
    entry,               \* which script runs
    config_valid,        \* whether the loaded configuration passes validation
    validate_only,       \* main.py --validate-only
    is_valid,            \* what the script kept of validate()'s answer
    manager,             \* TRUE once PipelineManager(config) has been called
    num_samples,         \* samples the script loops over
    sample_num,          \* samples started so far
    results,             \* number of samples whose run returned a result
    main_pc,             \* position of the script's main()
    stage_pc,            \* next stage of the running sample, 0 when none runs
    invoked,             \* stage names invoked for the current sample, in order
    stage_results,       \* the stage results obtained for the current sample
    failure,             \* the failure reported for the current sample
    run_status,          \* outcome of the current sample's run
    exit_code,           \* the script's exit code, -1 while it runs
    \* ---- batch run (batch_process.py) ----
    num_images,          \* len(image_files); the files are numbered 1..num_images
    continue_on_error,   \* args.continue_on_error
    image_idx,           \* position of the for loop in image_files
    executed,            \* history: files passed to process_single_image, in order
    pipeline_outputs,    \* history: what execute_pipeline did for each of them
    all_results,         \* results appended by the loop
    failed_images,       \* {'file', 'error'} entries appended by the loop
    batch_summary,       \* what summarize_results returned, once called
    batch_pc,            \* position of main()
    batch_exit,          \* exit code of the batch script, -1 while it runs
    run_no,              \* 1 for the first run of the script on the directory,
                         \* 2 for a second run on the same directory
    first_run,           \* history: what the first run met and produced
    \* ---- the statistics merge of buffered_detection.py on its own ----
    merge_inputs,        \* the organism lists of the successful passes
    merge_done,          \* which of them have been merged
    merge_stats,         \* frames_processed, total_organisms, species_counts
    \* ---- configuration validation at the start of main.py ----
    cfg,                 \* the loaded configuration
    val_is_valid,        \* validate()'s first answer
    val_errors,          \* validate()'s list of violations
    val_logged,          \* the violations main() has logged
    val_pc,              \* position of main() around the validation
    \* ---- the counting and analytics stages on one sample ----
    an_entry,            \* "counting": detections are counted first;
                         \* "analytics": analytics is given class counts
    detections,          \* the classified detections handed to counting
    confidence_threshold,       \* counting's threshold, in hundredths
    class_counts,        \* the class counts (label -> count)
    organisms_above,     \* counting's organismsAboveThreshold
    bloom_threshold,     \* analytics' bloomDominanceThreshold, in hundredths
    diversity,           \* analytics' diversity metrics
    bloom_alerts,        \* analytics' bloom alerts
    an_pc,               \* which stage is next
    \* ---- the motion tracker of motion_tracker.py ----
    max_disappeared,     \* CentroidTracker's parameter
    min_distance,        \* CentroidTracker's parameter
    next_object_id,      \* the id the next registered object gets
    objects,             \* id -> centroid of the tracked objects
    disappeared,         \* id -> updates in a row without a match
    total_unique_count,  \* MotionTracker's count of objects
    counted_ids,         \* the ids MotionTracker has counted
    frame_count,         \* frames handed to process_frame
    input_centroids,     \* the argument of the last update
    new_ids,             \* the ids the last update reported as new
    assigned,            \* history: per input centroid of the last update,
                         \* the id of the object it was given to
    dup_free             \* history: no input since the last reset held the
                         \* same centroid twice

bufVars == <<queue_size, frame_queue, unfinished_tasks, results_queue,
             frames_captured, frames_processed, total_organisms,
             species_counts, processing, lock, prod_pc, worker_pc, cur_frame,
             result, stop_reason, queue_full_warnings, none_results, unqueued,
             dequeued, pass_kind, summary>>

pipeVars == <<entry, config_valid, validate_only, is_valid, manager,
              num_samples, sample_num, results, main_pc, stage_pc, invoked,
              stage_results, failure, run_status, exit_code>>

batchVars == <<num_images, continue_on_error, run_no, first_run, image_idx,
               executed, pipeline_outputs, all_results, failed_images, batch_summary, batch_pc, batch_exit>>

mergeVars == <<merge_inputs, merge_done, merge_stats>>

validationVars == <<cfg, val_is_valid, val_errors, val_logged, val_pc>>

analyticsVars == <<an_entry, detections, confidence_threshold, class_counts,
                   organisms_above, bloom_threshold, diversity, bloom_alerts,
                   an_pc>>

\* the parts added last, which the older parts leave alone together
trackerVars == <<max_disappeared, min_distance, next_object_id, objects,
                 disappeared, total_unique_count, counted_ids, frame_count,
                 input_centroids, new_ids, assigned, dup_free>>

extraVars == <<analyticsVars, trackerVars>>

vars == <<bufVars, pipeVars, batchVars, mergeVars, validationVars, extraVars>>

----------------------------------------------------------------------------
\* Bounds of the model

\* frames the capture source can deliver in one session
MaxFrames == 3
\* largest queue_size a session is constructed with
MaxQueueSize == 2
\* largest number of organisms a frame's pass yields
MaxOrgs == 1
\* largest number of samples a script loops over
MaxSamples == 2
\* largest number of image files a batch finds
MaxImages == 3
\* largest number of detections handed to counting
MaxDetections == 3
\* largest number of centroids handed to one update of the tracker
MaxCentroids == 2
\* largest number of objects one tracker registers
MaxObjects == 3
\* largest number of frames handed to process_frame
MaxUpdates == 4

----------------------------------------------------------------------------
\* Values

\* process_frame's return values: None, or the result dict with its
\* 'organisms' list
None == [none |-> TRUE, organisms |-> <<>>]
Result(orgs) == [none |-> FALSE, organisms |-> orgs]
NoClass == "no_predicted_class"
Classes == {"copepod", "diatom"}
Species == Classes \cup {"unknown"}
Statuses == {"success", "error", "raise"}

\* an organism is represented by its 'predicted_class' entry, NoClass when the
\* key is absent
Organisms == Classes \cup {NoClass}

OrganismLists == UNION {[1..n -> Organisms] : n \in 0..MaxOrgs}

RECURSIVE CountOf(_, _)
\* number of entries of organism list orgs whose species is s
CountOf(orgs, s) ==
    IF orgs = <<>> THEN 0
    ELSE (IF (IF Head(orgs) = NoClass THEN "unknown" ELSE Head(orgs)) = s
          THEN 1 ELSE 0) + CountOf(Tail(orgs), s)

----------------------------------------------------------------------------
\* Entry points and the stage-by-stage sample run

StageOrder == <<"acquisition", "preprocessing", "segmentation",
                "classification", "counting", "analytics", "export">>
NumStages == Len(StageOrder)
ErrorMessages == {"source unavailable", "timeout"}
EntryPoints == {"main", "simulate_pipeline", "test_real_images",
                "test_with_real_images"}
\* the scripts that call the stages one by one
StageByStage == {"simulate_pipeline", "test_real_images"}

NoFailure == [stage |-> "none", message |-> ""]

\* what one stage's process() returned
StageResult(k, status, msg) ==
    [stage |-> StageOrder[k], status |-> status,
     error_message |-> IF status = "success" THEN "" ELSE msg]

\* no script runs
PipelineIdle ==
    /\ entry = "none"
    /\ config_valid = TRUE
    /\ validate_only = FALSE
    /\ is_valid = "unset"
    /\ manager = FALSE
    /\ num_samples = 0
    /\ sample_num = 0
    /\ results = 0
    /\ main_pc = "idle"
    /\ stage_pc = 0
    /\ invoked = <<>>
    /\ stage_results = <<>>
    /\ failure = NoFailure
    /\ run_status = "none"
    /\ exit_code = -1

\* a script has loaded its configuration and is about to validate it;
\* main.py runs one sample, test_with_real_images.py at most three
PipelineStart ==
    /\ entry \in EntryPoints
    /\ config_valid \in BOOLEAN
    /\ validate_only \in (IF entry = "main" THEN BOOLEAN ELSE {FALSE})
    /\ is_valid = "unset"
    /\ manager = FALSE
    /\ num_samples \in (IF entry = "main" THEN {1} ELSE 0..MaxSamples)
    /\ sample_num = 0
    /\ results = 0
    /\ main_pc = "validate"
    /\ stage_pc = 0
    /\ invoked = <<>>
    /\ stage_results = <<>>
    /\ failure = NoFailure
    /\ run_status = "none"
    /\ exit_code = -1

notPipeline == <<bufVars, batchVars, mergeVars, validationVars, extraVars>>
runVars == <<stage_pc, invoked, stage_results, failure, run_status>>
inputVars == <<entry, config_valid, validate_only, num_samples>>

\* ConfigValidator.validate(config): (is_valid, errors); is_valid is False
\* when the list of violations is not empty
validate(valid) == IF valid THEN "True" ELSE "False"

\* the script returns 1 after a failed validation
AbortInvalid ==
    /\ main_pc' = "exit"
    /\ exit_code' = 1

\* main.py lines 80-90: validate, return 1 when invalid, return 0 when only
\* validation was asked for
ValidateMain ==
    /\ entry = "main"
    /\ main_pc = "validate"
    /\ is_valid' = validate(config_valid)
    /\ IF is_valid' /= "True" THEN AbortInvalid
       ELSE IF validate_only THEN main_pc' = "exit" /\ exit_code' = 0
       ELSE main_pc' = "construct" /\ UNCHANGED exit_code
    /\ UNCHANGED <<notPipeline, inputVars, manager, sample_num, results, runVars>>

\* simulate_pipeline.py lines 328-331: validate() is called and its answer
\* is not kept
ValidateSimulate ==
    /\ entry = "simulate_pipeline"
    /\ main_pc = "validate"
    /\ main_pc' = "construct"
    /\ UNCHANGED <<notPipeline, inputVars, is_valid, manager, sample_num,
                   results, runVars, exit_code>>

\* test_real_images.py lines 252-258
ValidateTestReal ==
    /\ entry = "test_real_images"
    /\ main_pc = "validate"
    /\ is_valid' = validate(config_valid)
    /\ IF is_valid' /= "True" THEN AbortInvalid
       ELSE main_pc' = "construct" /\ UNCHANGED exit_code
    /\ UNCHANGED <<notPipeline, inputVars, manager, sample_num, results, runVars>>

\* test_with_real_images.py lines 27-33
ValidateTestWithReal ==
    /\ entry = "test_with_real_images"
    /\ main_pc = "validate"
    /\ is_valid' = validate(config_valid)
    /\ IF is_valid' /= "True" THEN AbortInvalid
       ELSE main_pc' = "construct" /\ UNCHANGED exit_code
    /\ UNCHANGED <<notPipeline, inputVars, manager, sample_num, results, runVars>>

\* PipelineManager(config) is called
Construct ==
    /\ main_pc = "construct"
    /\ manager' = TRUE
    /\ main_pc' = "loop"
    /\ UNCHANGED <<notPipeline, inputVars, is_valid, sample_num, results,
                   runVars, exit_code>>

\* simulate_single_sample / test_single_image is called for the next sample
StartSample ==
    /\ entry \in StageByStage
    /\ main_pc = "loop"
    /\ sample_num < num_samples
    /\ sample_num' = sample_num + 1
    /\ main_pc' = "sample"
    /\ stage_pc' = 1
    /\ invoked' = <<>>
    /\ stage_results' = <<>>
    /\ failure' = NoFailure
    /\ run_status' = "running"
    /\ UNCHANGED <<notPipeline, inputVars, is_valid, manager, results, exit_code>>

\* variant of NextStage: the analytics call is left out
NextStage_SkipAnalytics(k) == IF k = 5 THEN 7 ELSE k + 1

\* the stage that follows stage k
NextStage(k) == k + 1

\* variant of AfterStage: the status of the stage result is not tested
AfterStage_NoStatusTest(k, res) ==
    IF k = NumStages
    THEN [stage_pc |-> 0, run_status |-> "returned_result", failure |-> NoFailure]
    ELSE [stage_pc |-> NextStage(k), run_status |-> "running", failure |-> NoFailure]

\* the 'if result[status] != success: logger.error(...); return None' test
\* that follows every stage call, and the fall-through to the next stage
AfterStage(k, res) ==
    IF res.status /= "success"
    THEN [stage_pc |-> 0, run_status |-> "returned_none",
          failure |-> [stage |-> StageOrder[k], message |-> res.error_message]]
    ELSE IF k = NumStages
    THEN [stage_pc |-> 0, run_status |-> "returned_result", failure |-> NoFailure]
    ELSE [stage_pc |-> NextStage(k), run_status |-> "running", failure |-> NoFailure]

\* one stage of simulate_single_sample / test_single_image: the module's
\* process() is called and its status tested
RunStage ==
    /\ main_pc = "sample"
    /\ stage_pc \in 1..NumStages
    /\ invoked' = Append(invoked, StageOrder[stage_pc])
    /\ \E status \in {"success", "error"}, msg \in ErrorMessages :
         LET res == StageResult(stage_pc, status, msg)
             nxt == AfterStage(stage_pc, res)
         IN /\ stage_results' = Append(stage_results, res)
            /\ stage_pc' = nxt.stage_pc
            /\ run_status' = nxt.run_status
            /\ failure' = nxt.failure
    /\ UNCHANGED <<notPipeline, inputVars, is_valid, manager, sample_num,
                   results, main_pc, exit_code>>

\* a stage's process() raises: nothing in the stage-by-stage scripts catches
\* it, the script dies with a traceback
StageRaises ==
    /\ main_pc = "sample"
    /\ stage_pc \in 1..NumStages
    /\ invoked' = Append(invoked, StageOrder[stage_pc])
    /\ stage_pc' = 0
    /\ run_status' = "raised"
    /\ main_pc' = "exit"
    /\ exit_code' = 1
    /\ UNCHANGED <<notPipeline, inputVars, is_valid, manager, sample_num,
                   results, stage_results, failure>>

\* the sample's run has returned: 'if result: results.append(result)'
EndSample ==
    /\ main_pc = "sample"
    /\ run_status \in {"returned_none", "returned_result"}
    /\ results' = IF run_status = "returned_result" THEN results + 1 ELSE results
    /\ main_pc' = "loop"
    /\ UNCHANGED <<notPipeline, inputVars, is_valid, manager, sample_num,
                   runVars, exit_code>>

\* PipelineManager.execute_pipeline for one sample: the stages run in the
\* fixed order up to and including the first one that fails (failed = 0: none
\* fails); the result names the failing stage and its message
ExecutePipeline ==
    /\ entry \notin StageByStage
    /\ main_pc = "loop"
    /\ sample_num < num_samples
    /\ sample_num' = sample_num + 1
    /\ \E failed \in 0..NumStages, msg \in ErrorMessages :
         LET n == IF failed = 0 THEN NumStages ELSE failed
         IN /\ invoked' = SubSeq(StageOrder, 1, n)
            /\ stage_results' =
                 [k \in 1..n |->
                    StageResult(k, IF k = failed THEN "error" ELSE "success", msg)]
            /\ failure' = IF failed = 0 THEN NoFailure
                          ELSE [stage |-> StageOrder[failed], message |-> msg]
            /\ run_status' = IF failed = 0 THEN "returned_result"
                             ELSE "returned_none"
            /\ results' = IF failed = 0 THEN results + 1 ELSE results
    /\ UNCHANGED <<notPipeline, inputVars, is_valid, manager, main_pc, stage_pc,
                   exit_code>>

\* main.py: 0 when the pipeline result's status is success, else 1
ExitCodeMain == IF results = 1 THEN 0 ELSE 1

\* simulate_pipeline.py: 1 when no sample returned a result
ExitCodeSimulate == IF results > 0 THEN 0 ELSE 1

\* test_real_images.py: 0 when every image returned a result
ExitCodeTestReal == IF results = num_samples THEN 0 ELSE 1

\* test_with_real_images.py: always 0
ExitCodeTestWithReal == 0

\* the exit code the running script returns after its last sample
FinalExitCode ==
    CASE entry = "main" -> ExitCodeMain
      [] entry = "simulate_pipeline" -> ExitCodeSimulate
      [] entry = "test_real_images" -> ExitCodeTestReal
      [] OTHER -> ExitCodeTestWithReal

\* all samples are done: the script reports and returns
Finish ==
    /\ main_pc = "loop"
    /\ sample_num = num_samples
    /\ main_pc' = "exit"
    /\ exit_code' = FinalExitCode
    /\ UNCHANGED <<notPipeline, inputVars, is_valid, manager, sample_num,
                   results, runVars>>

NextPipeline ==
    \/ ValidateMain
    \/ ValidateSimulate
    \/ ValidateTestReal
    \/ ValidateTestWithReal
    \/ Construct
    \/ StartSample
    \/ RunStage
    \/ StageRaises
    \/ EndSample
    \/ ExecutePipeline
    \/ Finish

----------------------------------------------------------------------------
\* Configuration validation: ConfigValidator.validate and its use by main.py

\* the keys the schema requires, in the order they are checked
RequiredKeys ==
    <<[section |-> "segmentation", key |-> "minArea"],
      [section |-> "segmentation", key |-> "maxArea"],
      [section |-> "counting", key |-> "confidenceThreshold"],
      [section |-> "analytics", key |-> "bloomDominanceThreshold"]>>

Absent == [present |-> FALSE, value |-> 0]
Value(v) == [present |-> TRUE, value |-> v]

\* the values a key can have in a configuration, in hundredths
KeyValues == {Absent, Value(0), Value(100), Value(150)}

\* the range constraint of a key: confidenceThreshold in [0,1],
\* bloomDominanceThreshold in (0,1], none for the others
InRange(key, v) ==
    IF key = "confidenceThreshold" THEN 0 <= v /\ v <= 100
    ELSE IF key = "bloomDominanceThreshold" THEN 0 < v /\ v <= 100
    ELSE TRUE

\* the configurations: which sections are there and what their required
\* keys hold; a key of a section that is not there is absent, and a key
\* without a range constraint is there or not
Configs ==
    {c \in [present : SUBSET {StageOrder[k] : k \in 1..NumStages},
            keys : [1..Len(RequiredKeys) -> KeyValues]] :
        \A i \in 1..Len(RequiredKeys) :
            /\ RequiredKeys[i].section \notin c.present => c.keys[i] = Absent
            /\ RequiredKeys[i].key \in {"minArea", "maxArea"} =>
                  c.keys[i] \in {Absent, Value(100)}}

Violation(section, key, kind) == [section |-> section, key |-> key, kind |-> kind]

\* the violations of the required keys of section sec from the i-th on
RECURSIVE KeyViolations(_, _, _)
KeyViolations(config, sec, i) ==
    IF i > Len(RequiredKeys) THEN <<>>
    ELSE LET rk == RequiredKeys[i]
             here == IF rk.section /= sec THEN <<>>
                     ELSE IF ~config.keys[i].present
                     THEN <<Violation(sec, rk.key, "missing_key")>>
                     ELSE IF ~InRange(rk.key, config.keys[i].value)
                     THEN <<Violation(sec, rk.key, "out_of_range")>>
                     ELSE <<>>
         IN here \o KeyViolations(config, sec, i + 1)

\* the violations of the k-th section and the ones after it
RECURSIVE ViolationsFrom(_, _)
ViolationsFrom(config, k) ==
    IF k > NumStages THEN <<>>
    ELSE LET sec == StageOrder[k]
             here == IF sec \notin config.present
                     THEN <<Violation(sec, "", "missing_section")>>
                     ELSE KeyViolations(config, sec, 1)
         IN here \o ViolationsFrom(config, k + 1)

\* variant of ValidateConfig: validation stops at the first violation
ValidateConfig_StopsAtFirst(config) ==
    LET all == ViolationsFrom(config, 1)
        errors == IF all = <<>> THEN <<>> ELSE <<all[1]>>
    IN [is_valid |-> errors = <<>>, errors |-> errors]

\* ConfigValidator.validate(config): (is_valid, errors), every violation
\* collected in one pass
ValidateConfig(config) ==
    LET errors == ViolationsFrom(config, 1)
    IN [is_valid |-> errors = <<>>, errors |-> errors]

\* no validation is looked at on its own
ValidationIdle ==
    /\ cfg = [present |-> {}, keys |-> [i \in 1..Len(RequiredKeys) |-> Absent]]
    /\ val_is_valid = FALSE
    /\ val_errors = <<>>
    /\ val_logged = <<>>
    /\ val_pc = "idle"

notValidation == <<bufVars, pipeVars, batchVars, mergeVars, extraVars>>

\* main.py line 81: is_valid, errors = ConfigValidator.validate(config)
CallValidate ==
    /\ val_pc = "loaded"
    /\ LET r == ValidateConfig(cfg)
       IN /\ val_is_valid' = r.is_valid
          /\ val_errors' = r.errors
    /\ val_pc' = "validated"
    /\ UNCHANGED <<notValidation, cfg, val_logged>>

\* main.py lines 82-86: every error is logged and main returns 1
ReportErrors ==
    /\ val_pc = "validated"
    /\ ~val_is_valid
    /\ val_logged' = val_errors
    /\ val_pc' = "exited"
    /\ UNCHANGED <<notValidation, cfg, val_is_valid, val_errors>>

\* main.py lines 88-94: the configuration is valid and main goes on
ProceedValid ==
    /\ val_pc = "validated"
    /\ val_is_valid
    /\ val_pc' = "proceed"
    /\ UNCHANGED <<notValidation, cfg, val_is_valid, val_errors, val_logged>>

NextValidation ==
    \/ CallValidate
    \/ ReportErrors
    \/ ProceedValid

----------------------------------------------------------------------------
\* The batch run of batch_process.py

NoError == [kind |-> "none", message |-> ""]
\* a quotient of two numbers, kept exact
Ratio(a, b) == [num |-> a, den |-> b]
Zero == Ratio(0, 1)
NoSummary == [produced |-> FALSE, total_images |-> 0, total_organisms |-> 0,
              species_counts |-> [c \in Classes |-> 0],
              average_diversity |-> [shannon |-> Zero, simpson |-> Zero],
              blooms_detected |-> <<>>]
\* nothing is known of a first run
NoFirstRun == [outputs |-> <<>>, summary |-> NoSummary, failed |-> <<>>,
               succeeded |-> 0]
\* process_single_image's 'results' value when it returns an error
NoResult == [none |-> TRUE, file |-> 0]

\* no batch runs
BatchIdle ==
    /\ num_images = 0
    /\ continue_on_error = FALSE
    /\ run_no = 1
    /\ first_run = NoFirstRun
    /\ image_idx = 0
    /\ executed = <<>>
    /\ pipeline_outputs = <<>>
    /\ all_results = <<>>
    /\ failed_images = <<>>
    /\ batch_summary = NoSummary
    /\ batch_pc = "idle"
    /\ batch_exit = -1

\* main() has parsed its arguments and found the input directory
BatchStart ==
    /\ num_images \in 0..MaxImages
    /\ continue_on_error \in BOOLEAN
    /\ run_no = 1
    /\ first_run = NoFirstRun
    /\ image_idx = 0
    /\ executed = <<>>
    /\ pipeline_outputs = <<>>
    /\ all_results = <<>>
    /\ failed_images = <<>>
    /\ batch_summary = NoSummary
    /\ batch_pc = "scan"
    /\ batch_exit = -1

notBatch == <<bufVars, pipeVars, mergeVars, validationVars, extraVars>>
batchInput == <<num_images, continue_on_error, run_no, first_run>>

\* the 'summary' and 'detailed_results' fields of a pipeline output that
\* summarize_results reads: counts_by_class, total_organisms,
\* shannon_diversity and diversity.simpson (both in thousandths)
SampleSummary(copepods, diatoms, shannon, simpson) ==
    [counts_by_class |-> [c \in Classes |->
                            IF c = "copepod" THEN copepods ELSE diatoms],
     total_organisms |-> copepods + diatoms,
     shannon_diversity |-> shannon,
     simpson |-> simpson,
     bloom_alerts |-> IF copepods > diatoms THEN <<"copepod">>
                      ELSE IF diatoms > copepods THEN <<"diatom">>
                      ELSE <<>>]

EmptySample == SampleSummary(0, 0, 0, 0)
MixedSample == SampleSummary(1, 1, 693, 500)
SampleSummaries ==
    {EmptySample, MixedSample, SampleSummary(2, 0, 0, 1000),
     SampleSummary(0, 2, 0, 1000)}

\* what pipeline.execute_pipeline can do for one image: return a result
\* with a status, or raise ("raise")
PipelineOutputs ==
    {[status |-> "success", error_message |-> "", summary |-> sm] :
        sm \in SampleSummaries}
    \cup {[status |-> "error", error_message |-> msg, summary |-> sm] :
        msg \in ErrorMessages, sm \in {EmptySample, MixedSample}}
    \cup {[status |-> "raise", error_message |-> msg, summary |-> EmptySample] :
        msg \in ErrorMessages}

\* the outputs the pipeline can give for a file: in a second run on the
\* same directory every file's outcome is the one of the first run
OutputsFor(file) ==
    IF run_no = 2 THEN {first_run.outputs[file]} ELSE PipelineOutputs

\* process_single_image: execute_pipeline's output for the file is turned
\* into (results, None) or (None, error); status "raise": an exception was
\* raised and caught
process_single_image(file, out) ==
    IF out.status = "raise"
    THEN [result |-> NoResult,
          error |-> [kind |-> "exception", message |-> out.error_message]]
    ELSE IF out.status /= "success"
    THEN [result |-> NoResult,
          error |-> [kind |-> "pipeline_failed", message |-> out.error_message]]
    ELSE [result |-> [none |-> FALSE, file |-> file, status |-> out.status,
                      summary |-> out.summary],
          error |-> NoError]

\* lines 150-168: the directory is scanned; no image: sys.exit(1); otherwise
\* the output directory and the pipeline are set up
ScanImages ==
    /\ batch_pc = "scan"
    /\ IF num_images = 0
       THEN batch_pc' = "exited" /\ batch_exit' = 1
       ELSE batch_pc' = "loop" /\ UNCHANGED batch_exit
    /\ UNCHANGED <<notBatch, batchInput, image_idx, executed,
                   pipeline_outputs, all_results, failed_images, batch_summary>>

\* variant of ProcessImage: a failure never ends the loop
ProcessImage_NeverAborts ==
    /\ batch_pc = "loop"
    /\ image_idx < num_images
    /\ image_idx' = image_idx + 1
    /\ executed' = Append(executed, image_idx + 1)
    /\ \E out \in OutputsFor(image_idx + 1) :
         LET r == process_single_image(image_idx + 1, out)
         IN /\ pipeline_outputs' = Append(pipeline_outputs, out)
            /\ IF r.error /= NoError
               THEN /\ failed_images' =
                         Append(failed_images, [file |-> image_idx + 1, error |-> r.error])
                    /\ UNCHANGED <<all_results, batch_pc, batch_exit>>
               ELSE /\ all_results' = Append(all_results, r.result)
                    /\ UNCHANGED <<failed_images, batch_pc, batch_exit>>
    /\ UNCHANGED <<notBatch, batchInput, batch_summary>>

\* variant of ProcessImage: a failed image is not appended to failed_images
ProcessImage_FailureNotRecorded ==
    /\ batch_pc = "loop"
    /\ image_idx < num_images
    /\ image_idx' = image_idx + 1
    /\ executed' = Append(executed, image_idx + 1)
    /\ \E out \in OutputsFor(image_idx + 1) :
         LET r == process_single_image(image_idx + 1, out)
         IN /\ pipeline_outputs' = Append(pipeline_outputs, out)
            /\ IF r.error /= NoError
               THEN /\ UNCHANGED <<failed_images, all_results>>
                    /\ IF ~continue_on_error
                       THEN batch_pc' = "exited" /\ batch_exit' = 1
                       ELSE UNCHANGED <<batch_pc, batch_exit>>
               ELSE /\ all_results' = Append(all_results, r.result)
                    /\ UNCHANGED <<failed_images, batch_pc, batch_exit>>
    /\ UNCHANGED <<notBatch, batchInput, batch_summary>>

\* lines 176-186: one iteration of the for loop over image_files
ProcessImage ==
    /\ batch_pc = "loop"
    /\ image_idx < num_images
    /\ image_idx' = image_idx + 1
    /\ executed' = Append(executed, image_idx + 1)
    /\ \E out \in OutputsFor(image_idx + 1) :
         LET r == process_single_image(image_idx + 1, out)
         IN /\ pipeline_outputs' = Append(pipeline_outputs, out)
            /\ IF r.error /= NoError
               THEN /\ failed_images' =
                         Append(failed_images, [file |-> image_idx + 1, error |-> r.error])
                    /\ UNCHANGED all_results
                    /\ IF ~continue_on_error
                       THEN batch_pc' = "exited" /\ batch_exit' = 1
                       ELSE UNCHANGED <<batch_pc, batch_exit>>
               ELSE /\ all_results' = Append(all_results, r.result)
                    /\ UNCHANGED <<failed_images, batch_pc, batch_exit>>
    /\ UNCHANGED <<notBatch, batchInput, batch_summary>>

\* lines 64-74: the summary and the two running sums before the loop
EmptyTotals ==
    [total_organisms |-> 0, species_counts |-> [c \in Classes |-> 0],
     shannon_sum |-> 0, simpson_sum |-> 0, blooms_detected |-> <<>>]

\* lines 98-104: the result's bloom alerts, each with the image it is from
BloomsOf(res) ==
    [k \in 1..Len(res.summary.bloom_alerts) |->
        [image |-> res.file, species |-> res.summary.bloom_alerts[k]]]

\* variant of AddResult: a class count replaces the merged one
AddResult_CountsOverwritten(acc, res) ==
    IF res.status /= "success" THEN acc
    ELSE [total_organisms |-> acc.total_organisms + res.summary.total_organisms,
          species_counts |-> [c \in Classes |-> res.summary.counts_by_class[c]],
          shannon_sum |-> acc.shannon_sum + res.summary.shannon_diversity,
          simpson_sum |-> acc.simpson_sum + res.summary.simpson,
          blooms_detected |-> acc.blooms_detected \o BloomsOf(res)]

\* variant of AddResult: the Simpson sum accumulates the Shannon value
AddResult_SimpsonFromShannon(acc, res) ==
    IF res.status /= "success" THEN acc
    ELSE [total_organisms |-> acc.total_organisms + res.summary.total_organisms,
          species_counts |-> [c \in Classes |->
              acc.species_counts[c] + res.summary.counts_by_class[c]],
          shannon_sum |-> acc.shannon_sum + res.summary.shannon_diversity,
          simpson_sum |-> acc.simpson_sum + res.summary.shannon_diversity,
          blooms_detected |-> acc.blooms_detected \o BloomsOf(res)]

\* lines 75-96: the body of summarize_results' loop for one result
AddResult(acc, res) ==
    IF res.status /= "success" THEN acc
    ELSE [total_organisms |-> acc.total_organisms + res.summary.total_organisms,
          species_counts |-> [c \in Classes |->
              acc.species_counts[c] + res.summary.counts_by_class[c]],
          shannon_sum |-> acc.shannon_sum + res.summary.shannon_diversity,
          simpson_sum |-> acc.simpson_sum + res.summary.simpson,
          blooms_detected |-> acc.blooms_detected \o BloomsOf(res)]

\* the loop of summarize_results from the k-th result on
RECURSIVE SummarizeFrom(_, _, _)
SummarizeFrom(rs, k, acc) ==
    IF k > Len(rs) THEN acc
    ELSE SummarizeFrom(rs, k + 1, AddResult(acc, rs[k]))

\* lines 107-109: the averages are the sums over total_images, and stay 0
\* when total_images is 0
Average(sum, total_images) ==
    IF total_images > 0 THEN Ratio(sum, total_images) ELSE Zero

\* summarize_results(all_results): 'total_images' is len(all_results)
summarize_results(rs) ==
    LET acc == SummarizeFrom(rs, 1, EmptyTotals)
    IN [produced |-> TRUE, total_images |-> Len(rs),
        total_organisms |-> acc.total_organisms,
        species_counts |-> acc.species_counts,
        average_diversity |->
            [shannon |-> Average(acc.shannon_sum, Len(rs)),
             simpson |-> Average(acc.simpson_sum, Len(rs))],
        blooms_detected |-> acc.blooms_detected]

\* lines 188-195: the loop is over, the summary is generated
Summarize ==
    /\ batch_pc = "loop"
    /\ image_idx = num_images
    /\ batch_summary' = summarize_results(all_results)
    /\ batch_pc' = "save"
    /\ UNCHANGED <<notBatch, batchInput, image_idx, executed,
                   pipeline_outputs, all_results, failed_images, batch_exit>>

\* lines 197-268: the summary, the detail rows and the failed list are
\* written; main() returns and the script ends with exit code 0
SaveReports ==
    /\ batch_pc = "save"
    /\ batch_pc' = "done"
    /\ batch_exit' = 0
    /\ UNCHANGED <<notBatch, batchInput, image_idx, executed,
                   pipeline_outputs, all_results, failed_images, batch_summary>>

\* variant of RunAgain: the results of the first run are still in
\* all_results when the second run starts
RunAgain_KeepsResults ==
    /\ batch_pc = "done"
    /\ run_no = 1
    /\ continue_on_error
    /\ first_run' = [outputs |-> pipeline_outputs, summary |-> batch_summary,
                     failed |-> failed_images, succeeded |-> Len(all_results)]
    /\ run_no' = 2
    /\ image_idx' = 0
    /\ executed' = <<>>
    /\ pipeline_outputs' = <<>>
    /\ failed_images' = <<>>
    /\ batch_summary' = NoSummary
    /\ batch_pc' = "scan"
    /\ batch_exit' = -1
    /\ UNCHANGED <<notBatch, num_images, continue_on_error, all_results>>

\* the script is run a second time with --continue-on-error on the same
\* directory: a new process, in which main() starts from empty lists (lines
\* 173-174) and find_images returns the same sorted files (lines 24-30)
RunAgain ==
    /\ batch_pc = "done"
    /\ run_no = 1
    /\ continue_on_error
    /\ first_run' = [outputs |-> pipeline_outputs, summary |-> batch_summary,
                     failed |-> failed_images, succeeded |-> Len(all_results)]
    /\ run_no' = 2
    /\ image_idx' = 0
    /\ executed' = <<>>
    /\ pipeline_outputs' = <<>>
    /\ all_results' = <<>>
    /\ failed_images' = <<>>
    /\ batch_summary' = NoSummary
    /\ batch_pc' = "scan"
    /\ batch_exit' = -1
    /\ UNCHANGED <<notBatch, num_images, continue_on_error>>

NextBatch ==
    \/ ScanImages
    \/ ProcessImage
    \/ Summarize
    \/ SaveReports
    \/ RunAgain

----------------------------------------------------------------------------
\* Counting and AnalyticsEngine on one sample

Labels == {"A", "B"}

\* a classified detection: its class label and its confidence in hundredths
Detections == [label : Labels, confidence : {40, 50, 60, 90}]
DetectionLists == UNION {[1..n -> Detections] : n \in 0..MaxDetections}

\* the confidence thresholds and bloom thresholds tried, in hundredths
ConfidenceThresholds == {50, 90}
BloomThresholds == {30, 50, 100}

\* the class counts analytics is given directly: any labels, with counts
\* that may be 0
CountValues == {0, 1, 2, 5, 30, 70}
Snapshots == UNION {[ls -> CountValues] : ls \in SUBSET Labels}

\* the sum of f over the set S of its arguments
RECURSIVE SumOf(_, _)
SumOf(f, S) ==
    IF S = {} THEN 0
    ELSE LET x == CHOOSE y \in S : TRUE
         IN f[x] + SumOf(f, S \ {x})

\* the detections of list ds that meet the threshold
Qualifying(ds, threshold) ==
    {i \in 1..Len(ds) : ds[i].confidence >= threshold}

\* variant of CountDetections: a detection must exceed the threshold
CountDetections_Strict(ds, threshold) ==
    LET q == {i \in 1..Len(ds) : ds[i].confidence > threshold}
        counts == [l \in {ds[i].label : i \in q} |->
                      Cardinality({i \in q : ds[i].label = l})]
    IN [classCounts |-> counts,
        organismsAboveThreshold |-> Cardinality(q)]

\* Counting: class counts over the detections whose confidence meets the
\* threshold; a class without such a detection has no entry
CountDetections(ds, threshold) ==
    LET q == Qualifying(ds, threshold)
        counts == [l \in {ds[i].label : i \in q} |->
                      Cardinality({i \in q : ds[i].label = l})]
    IN [classCounts |-> counts,
        organismsAboveThreshold |-> Cardinality(q)]

\* totalCount of class counts
TotalCount(cc) == SumOf(cc, DOMAIN cc)

\* the natural logarithm in thousandths, for the numbers that occur as a
\* count or as a total
LnMilli ==
    (1 :> 0) @@ (2 :> 693) @@ (3 :> 1099) @@ (4 :> 1386) @@ (5 :> 1609) @@
    (6 :> 1792) @@ (7 :> 1946) @@ (10 :> 2303) @@ (30 :> 3401) @@
    (31 :> 3434) @@ (32 :> 3466) @@ (35 :> 3555) @@ (60 :> 4094) @@
    (70 :> 4248) @@ (71 :> 4263) @@ (72 :> 4277) @@ (75 :> 4317) @@
    (100 :> 4605) @@ (140 :> 4942)

\* Shannon diversity H = -sum p ln p over the classes with count > 0, in
\* thousandths; 0 when totalCount is 0.  With p = count/total this is
\* ln(total) - (sum count ln(count)) / total.
Shannon(cc) ==
    LET total == TotalCount(cc)
        present == {c \in DOMAIN cc : cc[c] > 0}
    IN IF total = 0 THEN 0
       ELSE LnMilli[total] -
            (SumOf([c \in present |-> cc[c] * LnMilli[cc[c]]], present)
                \div total)

\* Simpson index D = sum p^2, as the exact quotient of sum count^2 and
\* total^2; 0 when totalCount is 0
Simpson(cc) ==
    LET total == TotalCount(cc)
    IN IF total = 0 THEN Zero
       ELSE Ratio(SumOf([c \in DOMAIN cc |-> cc[c] * cc[c]], DOMAIN cc),
                  total * total)

\* variant of SpeciesRichness: every class with an entry is counted
SpeciesRichness_CountsEntries(cc) == Cardinality(DOMAIN cc)

\* species richness: the number of classes with count > 0
SpeciesRichness(cc) == Cardinality({c \in DOMAIN cc : cc[c] > 0})

\* variant of BloomAlerts: a share equal to the threshold raises an alert
BloomAlerts_NotStrict(cc, threshold) ==
    LET total == TotalCount(cc)
    IN {[species |-> c, dominanceRatio |-> Ratio(cc[c], total),
         thresholdUsed |-> threshold] :
            c \in {d \in DOMAIN cc : total > 0 /\ cc[d] * 100 >= threshold * total}}

\* bloom alerts: one for each class whose share count/total is greater than
\* the threshold
BloomAlerts(cc, threshold) ==
    LET total == TotalCount(cc)
    IN {[species |-> c, dominanceRatio |-> Ratio(cc[c], total),
         thresholdUsed |-> threshold] :
            c \in {d \in DOMAIN cc : total > 0 /\ cc[d] * 100 > threshold * total}}

NoDiversity == [shannon |-> 0, simpson |-> Zero, speciesRichness |-> 0]

\* neither stage runs
AnalyticsIdle ==
    /\ an_entry = "none"
    /\ detections = <<>>
    /\ confidence_threshold = 0
    /\ class_counts = <<>>
    /\ organisms_above = 0
    /\ bloom_threshold = 0
    /\ diversity = NoDiversity
    /\ bloom_alerts = {}
    /\ an_pc = "idle"

\* no tracker is in use
TrackerIdle ==
    /\ max_disappeared = 0
    /\ min_distance = 0
    /\ next_object_id = 0
    /\ objects = <<>>
    /\ disappeared = <<>>
    /\ total_unique_count = 0
    /\ counted_ids = {}
    /\ frame_count = 0
    /\ input_centroids = <<>>
    /\ new_ids = {}
    /\ assigned = <<>>
    /\ dup_free = TRUE

\* the parts added last are idle
ExtraIdle == AnalyticsIdle /\ TrackerIdle

notAnalytics == <<bufVars, pipeVars, batchVars, mergeVars, validationVars,
                  trackerVars>>

\* the counting stage runs on the detections
Count ==
    /\ an_pc = "counting"
    /\ LET r == CountDetections(detections, confidence_threshold)
       IN /\ class_counts' = r.classCounts
          /\ organisms_above' = r.organismsAboveThreshold
    /\ an_pc' = "analytics"
    /\ UNCHANGED <<notAnalytics, an_entry, detections, confidence_threshold,
                   bloom_threshold, diversity, bloom_alerts>>

\* the analytics stage runs on the class counts
Analyze ==
    /\ an_pc = "analytics"
    /\ diversity' = [shannon |-> Shannon(class_counts),
                     simpson |-> Simpson(class_counts),
                     speciesRichness |-> SpeciesRichness(class_counts)]
    /\ bloom_alerts' = BloomAlerts(class_counts, bloom_threshold)
    /\ an_pc' = "done"
    /\ UNCHANGED <<notAnalytics, an_entry, detections, confidence_threshold,
                   class_counts, organisms_above, bloom_threshold>>

NextAnalytics ==
    \/ Count
    \/ Analyze

----------------------------------------------------------------------------
\* The centroid tracker and the motion tracker's count

\* centroids are points of a small grid
Points == {<<0, 0>>, <<0, 1>>, <<2, 0>>}
CentroidLists == UNION {[1..n -> Points] : n \in 0..MaxCentroids}
MaxDisappearedValues == {0, 1}
MinDistances == {1, 2}

notTracker == <<bufVars, pipeVars, batchVars, mergeVars, validationVars,
                analyticsVars>>

\* a function extended, or overwritten, at one argument
Ext(f, k, v) == [x \in DOMAIN f \cup {k} |-> IF x = k THEN v ELSE f[x]]

\* a function without one argument
Without(f, k) == [x \in DOMAIN f \ {k} |-> f[x]]

\* lines 19-22: a tracker with no object
NewTracker == [next_object_id |-> 0, objects |-> <<>>, disappeared |-> <<>>]

\* lines 29-35: register
register(tr, centroid) ==
    [next_object_id |-> tr.next_object_id + 1,
     objects |-> Ext(tr.objects, tr.next_object_id, centroid),
     disappeared |-> Ext(tr.disappeared, tr.next_object_id, 0)]

\* lines 37-42: deregister
deregister(tr, object_id) ==
    [next_object_id |-> tr.next_object_id,
     objects |-> Without(tr.objects, object_id),
     disappeared |-> Without(tr.disappeared, object_id)]

\* variant of Disappear: the object is removed as soon as its counter
\* reaches max_disappeared
Disappear_AtThreshold(tr, object_id, maxd) ==
    LET t == [tr EXCEPT !.disappeared[object_id] = @ + 1]
    IN IF t.disappeared[object_id] >= maxd THEN deregister(t, object_id)
       ELSE t

\* lines 49-51 and 102-104: an object without a match in this update
Disappear(tr, object_id, maxd) ==
    LET t == [tr EXCEPT !.disappeared[object_id] = @ + 1]
    IN IF t.disappeared[object_id] > maxd THEN deregister(t, object_id)
       ELSE t

\* the loops of lines 48-51 and 100-104 over a set of objects
RECURSIVE DisappearAll(_, _, _)
DisappearAll(tr, ids, maxd) ==
    IF ids = {} THEN tr
    ELSE LET object_id == CHOOSE x \in ids : TRUE
         IN DisappearAll(Disappear(tr, object_id, maxd), ids \ {object_id},
                         maxd)

\* the sequences that list the elements of S once each
Orderings(S) ==
    {q \in [1..Cardinality(S) -> S] :
        \A i, j \in 1..Cardinality(S) : q[i] = q[j] => i = j}

\* lines 57-59 and 107-109: the centroids at the columns of order are
\* registered one after the other; asg notes which id each column got
RECURSIVE RegisterCols(_, _, _, _, _)
RegisterCols(tr, input, order, k, asg) ==
    IF k > Len(order) THEN [tr |-> tr, assigned |-> asg]
    ELSE RegisterCols(register(tr, input[order[k]]), input, order, k + 1,
                      Ext(asg, order[k], tr.next_object_id))

\* line 70: np.linalg.norm of the difference, kept as its square
SqDist(a, b) ==
    (a[1] - b[1]) * (a[1] - b[1]) + (a[2] - b[2]) * (a[2] - b[2])

\* line 73: D.min(axis=1) of a row
RowMin(centroid, input) ==
    LET ds == {SqDist(centroid, input[j]) : j \in 1..Len(input)}
    IN CHOOSE d \in ds : \A e \in ds : d <= e

\* line 74: D.argmin(axis=1) of a row, the first column with the minimum
ArgMin(centroid, input) ==
    CHOOSE j \in 1..Len(input) :
        /\ SqDist(centroid, input[j]) = RowMin(centroid, input)
        /\ \A i \in 1..(j - 1) :
              SqDist(centroid, input[i]) /= RowMin(centroid, input)

\* line 63: list(self.objects.keys()); ids enter the dict in rising order
IdList(S) ==
    CHOOSE q \in [1..Cardinality(S) -> S] :
        \A i, j \in 1..Cardinality(S) : i < j => q[i] < q[j]

\* line 73: the rows in the order of argsort, rows with equal minimum in
\* any order
RowOrders(ids, old, input) ==
    {q \in Orderings(1..Len(ids)) :
        \A i, j \in 1..Len(ids) :
            i < j => RowMin(old[ids[q[i]]], input)
                       <= RowMin(old[ids[q[j]]], input)}

\* lines 81-96: the matching loop over zip(rows, cols); st holds the
\* tracker, used_rows, used_cols and the columns given to objects so far
RECURSIVE MatchRows(_, _, _, _, _, _, _)
MatchRows(rows, k, st, ids, old, input, mind) ==
    IF k > Len(rows) THEN st
    ELSE LET row == rows[k]
             col == ArgMin(old[ids[row]], input)
         IN IF row \in st.used_rows \/ col \in st.used_cols
            THEN MatchRows(rows, k + 1, st, ids, old, input, mind)
            ELSE IF SqDist(old[ids[row]], input[col]) > mind * mind
            THEN MatchRows(rows, k + 1, st, ids, old, input, mind)
            ELSE MatchRows(rows, k + 1,
                     [tr |-> [st.tr EXCEPT
                                !.objects[ids[row]] = input[col],
                                !.disappeared[ids[row]] = 0],
                      used_rows |-> st.used_rows \cup {row},
                      used_cols |-> st.used_cols \cup {col},
                      assigned |-> Ext(st.assigned, col, ids[row])],
                     ids, old, input, mind)

\* lines 98-111: after the matching, the unmatched objects are marked and
\* the unused centroids registered, in the order the set gives them
AfterMatch(m, ids, input, order, maxd) ==
    LET unused_rows == (1..Len(ids)) \ m.used_rows
        t == DisappearAll(m.tr, {ids[r] : r \in unused_rows}, maxd)
        r == RegisterCols(t, input, order, 1, m.assigned)
    IN [tr |-> r.tr,
        new_ids |-> {r.assigned[c] : c \in (1..Len(input)) \ m.used_cols},
        assigned |-> r.assigned]

\* lines 44-113: update; the results it can give (one per tie order of
\* argsort and per iteration order of the set of unused columns)
Updates(tr, input, maxd, mind) ==
    IF Len(input) = 0
    THEN {[tr |-> DisappearAll(tr, DOMAIN tr.disappeared, maxd),
           new_ids |-> {}, assigned |-> <<>>]}
    ELSE IF DOMAIN tr.objects = {}
    THEN LET r == RegisterCols(tr, input, [j \in 1..Len(input) |-> j], 1,
                               <<>>)
         IN {[tr |-> r.tr,
              new_ids |-> {r.assigned[c] : c \in 1..Len(input)},
              assigned |-> r.assigned]}
    ELSE LET ids == IdList(DOMAIN tr.objects)
         IN UNION {
              LET m == MatchRows(rows, 1,
                                 [tr |-> tr, used_rows |-> {},
                                  used_cols |-> {}, assigned |-> <<>>],
                                 ids, tr.objects, input, mind)
              IN {AfterMatch(m, ids, input, order, maxd) :
                    order \in Orderings((1..Len(input)) \ m.used_cols)}
              : rows \in RowOrders(ids, tr.objects, input)}

\* lines 196-218: process_frame: the centroids of the frame's detections go
\* to the tracker and the ids it reports as new are counted
ProcessFrame ==
    /\ frame_count < MaxUpdates
    /\ \E input \in CentroidLists :
        \E u \in Updates([next_object_id |-> next_object_id,
                          objects |-> objects,
                          disappeared |-> disappeared],
                         input, max_disappeared, min_distance) :
           /\ u.tr.next_object_id <= MaxObjects
           /\ frame_count' = frame_count + 1
           /\ next_object_id' = u.tr.next_object_id
           /\ objects' = u.tr.objects
           /\ disappeared' = u.tr.disappeared
           /\ input_centroids' = input
           /\ new_ids' = u.new_ids
           /\ assigned' = u.assigned
           /\ counted_ids' = counted_ids \cup u.new_ids
           /\ total_unique_count' =
                total_unique_count + Cardinality(u.new_ids \ counted_ids)
           /\ dup_free' = (dup_free /\
                \A i, j \in 1..Len(input) : input[i] = input[j] => i = j)
    /\ UNCHANGED <<notTracker, max_disappeared, min_distance>>

\* lines 296-300: reset; the new CentroidTracker gets the parameters the
\* first one was built with
Reset ==
    /\ total_unique_count' = 0
    /\ counted_ids' = {}
    /\ next_object_id' = NewTracker.next_object_id
    /\ objects' = NewTracker.objects
    /\ disappeared' = NewTracker.disappeared
    /\ input_centroids' = <<>>
    /\ new_ids' = {}
    /\ assigned' = <<>>
    /\ dup_free' = TRUE
    /\ UNCHANGED <<notTracker, max_disappeared, min_distance, frame_count>>

NextTracker ==
    \/ ProcessFrame
    \/ Reset

----------------------------------------------------------------------------
\* variant of process_frame: a frame in which segmentation found no
\* organism is kept and classified
process_frame_KeepsEmpty(prep, seg, nseg, cls, orgs) ==
    IF prep = "raise" THEN None
    ELSE IF prep /= "success" THEN None
    ELSE IF seg = "raise" THEN None
    ELSE IF seg /= "success" THEN None
    ELSE IF cls = "raise" THEN None
    ELSE IF cls /= "success" THEN None
    ELSE Result(orgs)

\* BufferedDetector.process_frame: preprocessing, segmentation and
\* classification of one frame.  prep, seg, cls are what the three modules
\* return ("raise": the call raised), nseg the number of segmented organisms,
\* orgs the classified organisms.
process_frame(prep, seg, nseg, cls, orgs) ==
    IF prep = "raise" THEN None
    ELSE IF prep /= "success" THEN None
    ELSE IF seg = "raise" THEN None
    ELSE IF seg /= "success" \/ nseg = 0 THEN None
    ELSE IF cls = "raise" THEN None
    ELSE IF cls /= "success" THEN None
    ELSE Result(orgs)

\* how a pass went: "failed" when a module did not answer 'success', "zero"
\* when segmentation succeeded and found no organism, "ok" otherwise
PassKind(prep, seg, nseg, cls) ==
    IF prep /= "success" \/ seg /= "success" THEN "failed"
    ELSE IF nseg = 0 THEN "zero"
    ELSE IF cls /= "success" THEN "failed"
    ELSE "ok"

\* every value process_frame can return for one frame, with how the pass
\* went, over what the three modules can answer
ProcessFramePasses ==
    {[result |-> process_frame(prep, seg, nseg, cls, orgs),
      kind |-> PassKind(prep, seg, nseg, cls)] :
        prep \in Statuses, seg \in Statuses, nseg \in 0..MaxOrgs,
        cls \in Statuses, orgs \in OrganismLists}

\* the statistics before any merge (lines 54-57)
NoStats ==
    [frames_processed |-> 0, total_organisms |-> 0,
     species_counts |-> [s \in Species |-> 0]]

\* variant of MergeStats: a species count is set to the frame's count
MergeStats_CountsOverwritten(st, orgs) ==
    [frames_processed |-> st.frames_processed + 1,
     total_organisms |-> st.total_organisms + Len(orgs),
     species_counts |-> [s \in Species |->
         IF CountOf(orgs, s) > 0 THEN CountOf(orgs, s) ELSE st.species_counts[s]]]

\* lines 135-140 (and 295-300): one result's organisms are merged into the
\* statistics
MergeStats(st, orgs) ==
    [frames_processed |-> st.frames_processed + 1,
     total_organisms |-> st.total_organisms + Len(orgs),
     species_counts |-> [s \in Species |->
         st.species_counts[s] + CountOf(orgs, s)]]

\* no merge is looked at on its own
MergeIdle ==
    /\ merge_inputs = <<>>
    /\ merge_done = {}
    /\ merge_stats = NoStats

----------------------------------------------------------------------------
\* State after BufferedDetector.__init__
BufferedFields ==
    /\ frame_queue = <<>>
    /\ unfinished_tasks = 0
    /\ results_queue = <<>>
    /\ frames_captured = 0
    /\ frames_processed = 0
    /\ total_organisms = 0
    /\ species_counts = [s \in Species |-> 0]
    /\ processing = FALSE
    /\ lock = "free"
    /\ worker_pc = "unstarted"
    /\ cur_frame = 0
    /\ result = None
    /\ stop_reason = "none"
    /\ queue_full_warnings = 0
    /\ none_results = 0
    /\ unqueued = 0
    /\ dequeued = <<>>
    /\ pass_kind = "none"
    /\ summary = [printed |-> FALSE, frames_captured |-> 0,
                  frames_processed |-> 0, total_organisms |-> 0]

\* the variables of the other parts, which a buffered session leaves alone
notBuffered == <<pipeVars, batchVars, mergeVars, validationVars, extraVars>>

statsVars == <<frames_captured, frames_processed, total_organisms, species_counts>>
histVars == <<queue_full_warnings, none_results, unqueued, dequeued, pass_kind>>
queueVars == <<frame_queue, unfinished_tasks>>
workerVars == <<worker_pc, cur_frame, result>>

\* ---- producer: record_and_process with process_live ----

\* lines 202-205: start the worker thread
StartWorker ==
    /\ prod_pc = "start"
    /\ processing' = TRUE
    /\ worker_pc' = "loop"
    /\ prod_pc' = "read"
    /\ UNCHANGED <<queue_size, notBuffered, queueVars, results_queue, statsVars, lock,
                   cur_frame, result, stop_reason, histVars, summary>>

\* the recording loop is left for the finally block
LeaveLoop(reason) ==
    /\ prod_pc' = "join"
    /\ stop_reason' = reason

\* lines 218-220: the duration limit is reached
DurationLimit ==
    /\ prod_pc = "read"
    /\ LeaveLoop("duration")
    /\ UNCHANGED <<queue_size, notBuffered, queueVars, results_queue, statsVars, processing,
                   lock, workerVars, histVars, summary>>

\* lines 222-225: cap.read() fails
EndOfSource ==
    /\ prod_pc = "read"
    /\ LeaveLoop("end_of_source")
    /\ UNCHANGED <<queue_size, notBuffered, queueVars, results_queue, statsVars, processing,
                   lock, workerVars, histVars, summary>>

\* line 222: a frame is read
ReadFrame ==
    /\ prod_pc = "read"
    /\ frames_captured < MaxFrames
    /\ prod_pc' = "count"
    /\ UNCHANGED <<queue_size, notBuffered, queueVars, results_queue, statsVars, processing,
                   lock, workerVars, stop_reason, histVars, summary>>

\* line 227: self.frames_captured += 1
CountFrame ==
    /\ prod_pc = "count"
    /\ frames_captured' = frames_captured + 1
    /\ prod_pc' = "put"
    /\ UNCHANGED <<queue_size, notBuffered, queueVars, results_queue, frames_processed,
                   total_organisms, species_counts, processing, lock,
                   workerVars, stop_reason, histVars, summary>>

\* variant of PutFrame: the queue counts as full one frame early
PutFrame_FullOneEarly ==
    /\ prod_pc = "put"
    /\ IF Len(frame_queue) < queue_size - 1
       THEN /\ frame_queue' = Append(frame_queue, frames_captured)
            /\ unfinished_tasks' = unfinished_tasks + 1
            /\ UNCHANGED queue_full_warnings
       ELSE /\ queue_full_warnings' = queue_full_warnings + 1
            /\ UNCHANGED queueVars
    /\ prod_pc' = "overlay"
    /\ UNCHANGED <<queue_size, notBuffered, results_queue, statsVars, processing, lock,
                   workerVars, stop_reason, none_results, unqueued, dequeued,
                   pass_kind, summary>>

\* variant of PutFrame: on a full queue the oldest frame is evicted to make
\* room for the incoming one (drop-oldest)
PutFrame_DropOldest ==
    /\ prod_pc = "put"
    /\ IF Len(frame_queue) < queue_size
       THEN /\ frame_queue' = Append(frame_queue, frames_captured)
            /\ unfinished_tasks' = unfinished_tasks + 1
            /\ UNCHANGED queue_full_warnings
       ELSE /\ queue_full_warnings' = queue_full_warnings + 1
            /\ frame_queue' = Append(Tail(frame_queue), frames_captured)
            /\ UNCHANGED unfinished_tasks
    /\ prod_pc' = "overlay"
    /\ UNCHANGED <<queue_size, notBuffered, results_queue, statsVars, processing, lock,
                   workerVars, stop_reason, none_results, unqueued, dequeued,
                   pass_kind, summary>>

\* variant of PutFrame: a blocking put (block=True), which waits for space
PutFrame_Blocking ==
    /\ prod_pc = "put"
    /\ Len(frame_queue) < queue_size
    /\ frame_queue' = Append(frame_queue, frames_captured)
    /\ unfinished_tasks' = unfinished_tasks + 1
    /\ prod_pc' = "overlay"
    /\ UNCHANGED <<queue_size, notBuffered, results_queue, statsVars, processing, lock,
                   workerVars, stop_reason, histVars, summary>>

\* lines 235-238: frame_queue.put(..., block=False), queue.Full caught
PutFrame ==
    /\ prod_pc = "put"
    /\ IF Len(frame_queue) < queue_size
       THEN /\ frame_queue' = Append(frame_queue, frames_captured)
            /\ unfinished_tasks' = unfinished_tasks + 1
            /\ UNCHANGED queue_full_warnings
       ELSE /\ queue_full_warnings' = queue_full_warnings + 1
            /\ UNCHANGED queueVars
    /\ prod_pc' = "overlay"
    /\ UNCHANGED <<queue_size, notBuffered, results_queue, statsVars, processing, lock,
                   workerVars, stop_reason, none_results, unqueued, dequeued,
                   pass_kind, summary>>

\* line 392: _add_recording_overlay takes the lock
OverlayAcquire ==
    /\ prod_pc = "overlay"
    /\ lock = "free"
    /\ lock' = "producer"
    /\ prod_pc' = "overlay_read"
    /\ UNCHANGED <<queue_size, notBuffered, queueVars, results_queue, statsVars, processing,
                   workerVars, stop_reason, histVars, summary>>

\* lines 393-394: the status line is formatted and the lock released
OverlayRelease ==
    /\ prod_pc = "overlay_read"
    /\ lock' = "free"
    /\ prod_pc' = "waitkey"
    /\ UNCHANGED <<queue_size, notBuffered, queueVars, results_queue, statsVars, processing,
                   workerVars, stop_reason, histVars, summary>>

\* variant of UserQuit: 'q' is noted but the loop is not left
UserQuit_KeepsRecording ==
    /\ prod_pc = "waitkey"
    /\ stop_reason' = "quit"
    /\ prod_pc' = "read"
    /\ UNCHANGED <<queue_size, notBuffered, queueVars, results_queue, statsVars, processing,
                   lock, workerVars, histVars, summary>>

\* lines 249-251: 'q' pressed
UserQuit ==
    /\ prod_pc = "waitkey"
    /\ LeaveLoop("quit")
    /\ UNCHANGED <<queue_size, notBuffered, queueVars, results_queue, statsVars, processing,
                   lock, workerVars, histVars, summary>>

\* line 249: no quit key, next iteration
NextIteration ==
    /\ prod_pc = "waitkey"
    /\ prod_pc' = "read"
    /\ UNCHANGED <<queue_size, notBuffered, queueVars, results_queue, statsVars, processing,
                   lock, workerVars, stop_reason, histVars, summary>>

\* lines 253-254: KeyboardInterrupt anywhere in the recording loop; a lock
\* held by the overlay's with-block is released on the way out
KeyboardInterrupt ==
    /\ prod_pc \in {"read", "count", "put", "overlay", "overlay_read", "waitkey"}
    /\ LeaveLoop("interrupt")
    /\ lock' = IF lock = "producer" THEN "free" ELSE lock
    /\ unqueued' = IF prod_pc = "put" THEN unqueued + 1 ELSE unqueued
    /\ UNCHANGED <<queue_size, notBuffered, queueVars, results_queue, statsVars, processing,
                   workerVars, queue_full_warnings, none_results, dequeued,
                   pass_kind, summary>>

\* variant of JoinQueue: the finally block does not wait for the queue
JoinQueue_NoWait ==
    /\ prod_pc = "join"
    /\ prod_pc' = "stop_flag"
    /\ UNCHANGED <<queue_size, notBuffered, queueVars, results_queue, statsVars, processing,
                   lock, workerVars, stop_reason, histVars, summary>>

\* line 267: frame_queue.join() returns once every put is matched by task_done
JoinQueue ==
    /\ prod_pc = "join"
    /\ unfinished_tasks = 0
    /\ prod_pc' = "stop_flag"
    /\ UNCHANGED <<queue_size, notBuffered, queueVars, results_queue, statsVars, processing,
                   lock, workerVars, stop_reason, histVars, summary>>

\* line 268: self.processing = False
StopFlag ==
    /\ prod_pc = "stop_flag"
    /\ processing' = FALSE
    /\ prod_pc' = "worker_join"
    /\ UNCHANGED <<queue_size, notBuffered, queueVars, results_queue, statsVars, lock,
                   workerVars, stop_reason, histVars, summary>>

\* line 269: worker.join()
WorkerJoin ==
    /\ prod_pc = "worker_join"
    /\ worker_pc = "stopped"
    /\ prod_pc' = "annotate"
    /\ UNCHANGED <<queue_size, notBuffered, queueVars, results_queue, statsVars, processing,
                   lock, workerVars, stop_reason, histVars, summary>>

\* lines 277-278, 309-313: _generate_annotated_video drains results_queue
Annotate ==
    /\ prod_pc = "annotate"
    /\ results_queue' = IF frames_processed > 0 THEN <<>> ELSE results_queue
    /\ prod_pc' = "summary"
    /\ UNCHANGED <<queue_size, notBuffered, queueVars, statsVars, processing, lock,
                   workerVars, stop_reason, histVars, summary>>

\* lines 280, 397-415: _print_summary reads the final statistics
PrintSummary ==
    /\ prod_pc = "summary"
    /\ summary' = [printed |-> TRUE,
                   frames_captured |-> frames_captured,
                   frames_processed |-> frames_processed,
                   total_organisms |-> total_organisms]
    /\ prod_pc' = "done"
    /\ UNCHANGED <<queue_size, notBuffered, queueVars, results_queue, statsVars, processing,
                   lock, workerVars, stop_reason, histVars>>

\* ---- worker: processing_worker ----

\* line 121: while self.processing
WorkerLoop ==
    /\ worker_pc = "loop"
    /\ worker_pc' = IF processing THEN "get" ELSE "stopped"
    /\ UNCHANGED <<queue_size, notBuffered, queueVars, results_queue, statsVars, processing,
                   lock, prod_pc, cur_frame, result, stop_reason, histVars,
                   summary>>

\* variant of WorkerGet: task_done is called as soon as the frame is taken
WorkerGet_EarlyTaskDone ==
    /\ worker_pc = "get"
    /\ frame_queue /= <<>>
    /\ cur_frame' = Head(frame_queue)
    /\ frame_queue' = Tail(frame_queue)
    /\ unfinished_tasks' = unfinished_tasks - 1
    /\ dequeued' = Append(dequeued, Head(frame_queue))
    /\ worker_pc' = "process"
    /\ UNCHANGED <<queue_size, notBuffered, results_queue, statsVars, processing, lock,
                   prod_pc, result, stop_reason, queue_full_warnings,
                   none_results, unqueued, pass_kind, summary>>

\* variant of WorkerGet: the lock is taken before the frame is processed
WorkerGet_HoldingLock ==
    /\ worker_pc = "get"
    /\ frame_queue /= <<>>
    /\ lock = "free"
    /\ lock' = "worker"
    /\ cur_frame' = Head(frame_queue)
    /\ frame_queue' = Tail(frame_queue)
    /\ dequeued' = Append(dequeued, Head(frame_queue))
    /\ worker_pc' = "process"
    /\ UNCHANGED <<queue_size, notBuffered, unfinished_tasks, results_queue, statsVars,
                   processing, prod_pc, result, stop_reason,
                   queue_full_warnings, none_results, unqueued, pass_kind,
                   summary>>

\* variant of WorkerGet: the oldest frame is read but left in the queue
WorkerGet_Peek ==
    /\ worker_pc = "get"
    /\ frame_queue /= <<>>
    /\ cur_frame' = Head(frame_queue)
    /\ dequeued' = Append(dequeued, Head(frame_queue))
    /\ worker_pc' = "process"
    /\ UNCHANGED <<queue_size, notBuffered, queueVars, results_queue, statsVars,
                   processing, lock, prod_pc, result, stop_reason,
                   queue_full_warnings, none_results, unqueued, pass_kind,
                   summary>>

\* variant of WorkerGet: the newest frame is taken (a LIFO queue)
WorkerGet_NewestFirst ==
    /\ worker_pc = "get"
    /\ frame_queue /= <<>>
    /\ cur_frame' = frame_queue[Len(frame_queue)]
    /\ frame_queue' = SubSeq(frame_queue, 1, Len(frame_queue) - 1)
    /\ dequeued' = Append(dequeued, frame_queue[Len(frame_queue)])
    /\ worker_pc' = "process"
    /\ UNCHANGED <<queue_size, notBuffered, unfinished_tasks, results_queue, statsVars,
                   processing, lock, prod_pc, result, stop_reason,
                   queue_full_warnings, none_results, unqueued, pass_kind,
                   summary>>

\* line 125: frame_queue.get(timeout=0.5) returns the oldest frame
WorkerGet ==
    /\ worker_pc = "get"
    /\ frame_queue /= <<>>
    /\ cur_frame' = Head(frame_queue)
    /\ frame_queue' = Tail(frame_queue)
    /\ dequeued' = Append(dequeued, Head(frame_queue))
    /\ worker_pc' = "process"
    /\ UNCHANGED <<queue_size, notBuffered, unfinished_tasks, results_queue, statsVars,
                   processing, lock, prod_pc, result, stop_reason,
                   queue_full_warnings, none_results, unqueued, pass_kind,
                   summary>>

\* lines 126-127: the get timed out on an empty queue
WorkerGetTimeout ==
    /\ worker_pc = "get"
    /\ frame_queue = <<>>
    /\ worker_pc' = "loop"
    /\ UNCHANGED <<queue_size, notBuffered, queueVars, results_queue, statsVars, processing,
                   lock, prod_pc, cur_frame, result, stop_reason, histVars,
                   summary>>

\* variant of WorkerProcess: the 'if result' test is missing
WorkerProcess_NoResultTest ==
    /\ worker_pc = "process"
    /\ \E p \in ProcessFramePasses : result' = p.result /\ pass_kind' = p.kind
    /\ worker_pc' = "lock"
    /\ none_results' = IF result'.none THEN none_results + 1 ELSE none_results
    /\ UNCHANGED <<queue_size, notBuffered, queueVars, results_queue, statsVars, processing,
                   lock, prod_pc, cur_frame, stop_reason, queue_full_warnings,
                   unqueued, dequeued, summary>>

\* lines 130-132: result = self.process_frame(frame, frame_number); if result
WorkerProcess ==
    /\ worker_pc = "process"
    /\ \E p \in ProcessFramePasses : result' = p.result /\ pass_kind' = p.kind
    /\ IF ~result'.none
       THEN /\ worker_pc' = "lock"
            /\ UNCHANGED none_results
       ELSE /\ worker_pc' = "task_done"
            /\ none_results' = none_results + 1
    /\ UNCHANGED <<queue_size, notBuffered, queueVars, results_queue, statsVars, processing,
                   lock, prod_pc, cur_frame, stop_reason, queue_full_warnings,
                   unqueued, dequeued, summary>>

\* line 134: with self.lock
WorkerAcquire ==
    /\ worker_pc = "lock"
    /\ lock = "free"
    /\ lock' = "worker"
    /\ worker_pc' = "merge"
    /\ UNCHANGED <<queue_size, notBuffered, queueVars, results_queue, statsVars, processing,
                   prod_pc, cur_frame, result, stop_reason, histVars, summary>>

\* lines 135-140: the statistics are updated and the lock released
WorkerMerge ==
    /\ worker_pc = "merge"
    /\ LET st == MergeStats([frames_processed |-> frames_processed,
                             total_organisms |-> total_organisms,
                             species_counts |-> species_counts],
                            result.organisms)
       IN /\ frames_processed' = st.frames_processed
          /\ total_organisms' = st.total_organisms
          /\ species_counts' = st.species_counts
    /\ lock' = "free"
    /\ worker_pc' = "put_result"
    /\ UNCHANGED <<queue_size, notBuffered, queueVars, results_queue, frames_captured,
                   processing, prod_pc, cur_frame, result, stop_reason,
                   histVars, summary>>

\* line 143: results_queue.put(result)
WorkerPutResult ==
    /\ worker_pc = "put_result"
    /\ results_queue' = Append(results_queue, cur_frame)
    /\ worker_pc' = "log"
    /\ UNCHANGED <<queue_size, notBuffered, queueVars, statsVars, processing, lock, prod_pc,
                   cur_frame, result, stop_reason, histVars, summary>>

\* lines 146-148: the progress log reads frames_processed, frames_captured
\* and total_organisms after the with-block has been left
WorkerLogProgress ==
    /\ worker_pc = "log"
    /\ worker_pc' = "task_done"
    /\ UNCHANGED <<queue_size, notBuffered, queueVars, results_queue, statsVars, processing,
                   lock, prod_pc, cur_frame, result, stop_reason, histVars,
                   summary>>

\* line 150: self.frame_queue.task_done()
WorkerTaskDone ==
    /\ worker_pc = "task_done"
    /\ unfinished_tasks' = unfinished_tasks - 1
    /\ cur_frame' = 0
    /\ result' = None
    /\ pass_kind' = "none"
    /\ worker_pc' = "loop"
    /\ UNCHANGED <<queue_size, notBuffered, frame_queue, results_queue, statsVars,
                   processing, lock, prod_pc, stop_reason, queue_full_warnings,
                   none_results, unqueued, dequeued, summary>>

NextBuffered ==
    \/ StartWorker
    \/ DurationLimit
    \/ EndOfSource
    \/ ReadFrame
    \/ CountFrame
    \/ PutFrame
    \/ OverlayAcquire
    \/ OverlayRelease
    \/ UserQuit
    \/ NextIteration
    \/ KeyboardInterrupt
    \/ JoinQueue
    \/ StopFlag
    \/ WorkerJoin
    \/ Annotate
    \/ PrintSummary
    \/ WorkerLoop
    \/ WorkerGet
    \/ WorkerGetTimeout
    \/ WorkerProcess
    \/ WorkerAcquire
    \/ WorkerMerge
    \/ WorkerPutResult
    \/ WorkerLogProgress
    \/ WorkerTaskDone

InitBuffered ==
    /\ queue_size \in 1..MaxQueueSize
    /\ prod_pc = "start"
    /\ BufferedFields
    /\ PipelineIdle
    /\ BatchIdle
    /\ MergeIdle
    /\ ValidationIdle
    /\ ExtraIdle

SpecBuffered == InitBuffered /\ [][NextBuffered]_vars

\* lines 135-140, 152-153: the bookkeeping raises inside the with-block,
\* after frames_processed was incremented: len() of an organism list that
\* is None (line 136), or .get on an organism that is no dict (line 139,
\* total_organisms already added). The with-block releases the lock, the
\* outer handler logs the error and the loop goes on: results_queue.put and
\* task_done (lines 143-150) are skipped.
WorkerBookkeepingRaises ==
    /\ worker_pc = "merge"
    /\ frames_processed' = frames_processed + 1
    /\ total_organisms' \in {total_organisms,
                             total_organisms + Len(result.organisms)}
    /\ lock' = "free"
    /\ cur_frame' = 0
    /\ result' = None
    /\ pass_kind' = "none"
    /\ worker_pc' = "loop"
    /\ UNCHANGED <<queue_size, notBuffered, queueVars, results_queue, frames_captured,
                   species_counts, processing, prod_pc, stop_reason,
                   queue_full_warnings, none_results, unqueued, dequeued,
                   summary>>

\* the steps of the worker thread
WorkerSteps ==
    \/ WorkerLoop
    \/ WorkerGet
    \/ WorkerGetTimeout
    \/ WorkerProcess
    \/ WorkerAcquire
    \/ WorkerMerge
    \/ WorkerPutResult
    \/ WorkerLogProgress
    \/ WorkerTaskDone

\* the steps of the finally block of record_and_process (lines 256-280)
ShutdownSteps ==
    \/ JoinQueue
    \/ StopFlag
    \/ WorkerJoin
    \/ Annotate
    \/ PrintSummary

NextShutdown ==
    \/ NextBuffered
    \/ WorkerBookkeepingRaises

\* a live session whose classifier may hand back a malformed organism list,
\* with a worker thread that is always scheduled again (it wakes from get
\* after at most 0.5 s) and a main thread that goes on in its finally block
\* whenever it can
SpecShutdown ==
    /\ InitBuffered
    /\ [][NextShutdown]_vars
    /\ WF_vars(WorkerSteps)
    /\ WF_vars(ShutdownSteps)

\* no buffered session runs
BufferedIdle ==
    /\ queue_size = 1
    /\ prod_pc = "idle"
    /\ BufferedFields

InitPipeline ==
    /\ PipelineStart
    /\ BufferedIdle
    /\ BatchIdle
    /\ MergeIdle
    /\ ValidationIdle
    /\ ExtraIdle

SpecPipeline == InitPipeline /\ [][NextPipeline]_vars

InitBatch ==
    /\ BatchStart
    /\ BufferedIdle
    /\ PipelineIdle
    /\ MergeIdle
    /\ ValidationIdle
    /\ ExtraIdle

SpecBatch == InitBatch /\ [][NextBatch]_vars

\* the merge of lines 134-140 applied to a fixed list of successful results
\* in any order: one more result, whichever, is merged
MergeResult ==
    /\ \E k \in (1..Len(merge_inputs)) \ merge_done :
         /\ merge_stats' = MergeStats(merge_stats, merge_inputs[k])
         /\ merge_done' = merge_done \cup {k}
    /\ UNCHANGED <<bufVars, pipeVars, batchVars, validationVars, extraVars,
                   merge_inputs>>

InitMerge ==
    /\ merge_inputs \in [1..MaxFrames -> OrganismLists]
    /\ merge_done = {}
    /\ merge_stats = NoStats
    /\ BufferedIdle
    /\ PipelineIdle
    /\ BatchIdle
    /\ ValidationIdle
    /\ ExtraIdle

SpecMerge == InitMerge /\ [][MergeResult]_vars

\* main() has loaded a configuration
InitValidation ==
    /\ cfg \in Configs
    /\ val_is_valid = FALSE
    /\ val_errors = <<>>
    /\ val_logged = <<>>
    /\ val_pc = "loaded"
    /\ BufferedIdle
    /\ PipelineIdle
    /\ BatchIdle
    /\ MergeIdle
    /\ ExtraIdle

SpecValidation == InitValidation /\ [][NextValidation]_vars

\* a sample is about to be counted, or class counts are about to be analysed
InitAnalytics ==
    /\ \/ /\ an_entry = "counting"
          /\ detections \in DetectionLists
          /\ confidence_threshold \in ConfidenceThresholds
          /\ class_counts = <<>>
          /\ an_pc = "counting"
       \/ /\ an_entry = "analytics"
          /\ detections = <<>>
          /\ confidence_threshold = 0
          /\ class_counts \in Snapshots
          /\ an_pc = "analytics"
    /\ organisms_above = 0
    /\ bloom_threshold \in BloomThresholds
    /\ diversity = NoDiversity
    /\ bloom_alerts = {}
    /\ BufferedIdle
    /\ PipelineIdle
    /\ BatchIdle
    /\ MergeIdle
    /\ ValidationIdle
    /\ TrackerIdle

SpecAnalytics == InitAnalytics /\ [][NextAnalytics]_vars

\* a MotionTracker has been constructed (lines 119-138); the parameters of
\* its CentroidTracker are drawn small
InitTracker ==
    /\ max_disappeared \in MaxDisappearedValues
    /\ min_distance \in MinDistances
    /\ next_object_id = 0
    /\ objects = <<>>
    /\ disappeared = <<>>
    /\ total_unique_count = 0
    /\ counted_ids = {}
    /\ frame_count = 0
    /\ input_centroids = <<>>
    /\ new_ids = {}
    /\ assigned = <<>>
    /\ dup_free = TRUE
    /\ BufferedIdle
    /\ PipelineIdle
    /\ BatchIdle
    /\ MergeIdle
    /\ ValidationIdle
    /\ AnalyticsIdle

SpecTracker == InitTracker /\ [][NextTracker]_vars


----------------------------------------------------------------------------
\* Properties of the buffered session

\* the finally block is past frame_queue.join()
AfterJoin == prod_pc \in {"stop_flag", "worker_join", "annotate", "summary", "done"}

\* frames put on the queue without queue.Full
Enqueued == frames_captured - queue_full_warnings - unqueued

\* C1 as stated: at shutdown every captured frame is either processed or
\* dropped, frames_captured = frames_processed + dropped, the drops being the
\* frames refused by the full queue (stated for the sessions in which every
\* counted frame reached its put).
C1_CapturedIsProcessedPlusDropped ==
    (summary.printed /\ unqueued = 0) =>
        summary.frames_captured = summary.frames_processed + queue_full_warnings

\* C1 amended: once join() has returned, and in the printed statistics,
\* frames_captured = frames_processed + frames refused by the full queue
\* + dequeued frames whose pass returned None + the frame (at most one) that
\* was counted when a KeyboardInterrupt ended the loop before its put.
C1_ShutdownAccounting ==
    /\ AfterJoin =>
         /\ frames_captured =
              frames_processed + queue_full_warnings + none_results + unqueued
         /\ unqueued \in {0, 1}
    /\ summary.printed =>
         /\ summary.frames_captured = frames_captured
         /\ summary.frames_processed = frames_processed

\* a session that ended with a drop, a failed pass and a processed frame
C1_Witness ==
    /\ summary.printed
    /\ queue_full_warnings >= 1
    /\ none_results >= 1
    /\ frames_processed >= 1

\* a put that finds the queue full
DropStep ==
    /\ prod_pc = "put"
    /\ Len(frame_queue) >= queue_size
    /\ prod_pc' /= "put"
    /\ stop_reason' = stop_reason

C3_StatsAfterDrain ==
    (prod_pc \in {"annotate", "summary", "done"} \/ summary.printed) =>
        /\ frame_queue = <<>>
        /\ unfinished_tasks = 0
        /\ cur_frame = 0
        /\ worker_pc = "stopped"
        /\ Len(dequeued) = Enqueued
        /\ frames_processed + none_results = Len(dequeued)

\* statistics printed after a user quit with two frames through the worker
C3_Witness ==
    /\ summary.printed
    /\ stop_reason \in {"quit", "interrupt"}
    /\ Len(dequeued) >= 2

\* C4 as stated: every access to a statistics field made while the worker may
\* run is made with the lock held by the accessing thread.
C4_StatsAccessUnderLock ==
    worker_pc \notin {"unstarted", "stopped"} =>
        /\ prod_pc = "count" => lock = "producer"
        /\ prod_pc = "overlay_read" => lock = "producer"
        /\ worker_pc = "merge" => lock = "worker"
        /\ worker_pc = "log" => lock = "worker"

\* a worker step that handles a pass that returned None
FailedPassStep ==
    \/ worker_pc = "process" /\ worker_pc' /= "process" /\ result'.none
    \/ worker_pc = "task_done" /\ worker_pc' /= "task_done" /\ result.none

\* C5: a failed pass changes no statistics field and puts no result, the
\* worker goes on to task_done and back to its loop, the flag and the
\* producer are untouched; the worker leaves its loop only on the flag.
C5_FailureIsolation ==
    /\ [](worker_pc = "stopped" => ~processing)
    /\ [][FailedPassStep =>
            /\ UNCHANGED <<frames_processed, total_organisms, species_counts>>
            /\ results_queue' = results_queue
            /\ processing' = processing
            /\ prod_pc' = prod_pc
            /\ worker_pc' = IF worker_pc = "process" THEN "task_done" ELSE "loop"]_vars

\* after a failed pass the worker is merging a later frame
C5_Witness ==
    /\ none_results >= 1
    /\ worker_pc = "merge"
    /\ frames_processed = 0


----------------------------------------------------------------------------
\* Properties of the sample run and the entry points

\* C6: when stage i is the first to return status error, exactly the stages
\* 1..i were invoked, i stage results are held, the run has returned without
\* a result and reports stage i with its error message; no later stage is
\* invoked, so export is never invoked after a failed segmentation.
C6_FailFast ==
    \A i \in 1..Len(stage_results) :
        stage_results[i].status = "error" =>
            /\ Len(stage_results) = i
            /\ invoked = SubSeq(StageOrder, 1, i)
            /\ stage_pc = 0
            /\ run_status = "returned_none"
            /\ failure = [stage |-> StageOrder[i],
                          message |-> stage_results[i].error_message]
            /\ (StageOrder[i] = "segmentation" =>
                    \A k \in 1..Len(invoked) : invoked[k] /= "export")

\* simulate_single_sample has returned after a failed segmentation
C6_Witness ==
    /\ entry = "simulate_pipeline"
    /\ failure.stage = "segmentation"
    /\ failure.message = "timeout"
    /\ Len(invoked) = 3
    /\ main_pc = "loop"

\* C7: the stages of one sample are invoked in the fixed order, each at most
\* once and none skipped; a stage is invoked only after the one before it
\* returned success; a run that returns a result has invoked all seven.
C7_StageOrder ==
    /\ Len(invoked) <= NumStages
    /\ invoked = SubSeq(StageOrder, 1, Len(invoked))
    /\ \A k \in 2..Len(invoked) :
         /\ Len(stage_results) >= k - 1
         /\ stage_results[k - 1].stage = StageOrder[k - 1]
         /\ stage_results[k - 1].status = "success"
    /\ run_status = "returned_result" =>
         /\ invoked = StageOrder
         /\ Len(stage_results) = NumStages
         /\ \A k \in 1..NumStages : stage_results[k].status = "success"

\* test_single_image has run all seven stages of its second image
C7_Witness ==
    /\ entry = "test_real_images"
    /\ run_status = "returned_result"
    /\ sample_num = 2
    /\ Len(invoked) = NumStages

\* C8 as stated: under a configuration that validation rejects, no
\* PipelineManager is constructed and no stage is invoked, whatever the
\* entry point.
C8_NothingRunsWhenInvalid ==
    ~config_valid => (~manager /\ invoked = <<>>)

----------------------------------------------------------------------------
\* Properties of the batch run

\* the files 1..n in collection order
FilesUpTo(n) == [k \in 1..n |-> k]

\* the files of the entries of a list
FilesOf(list) == {list[k].file : k \in 1..Len(list)}

\* C9: with --continue-on-error every image is executed exactly once in
\* collection order whatever failed before, and each executed image is in
\* exactly one of all_results and failed_images, a failed one with its file
\* and error message; after the loop succeeded + failed = number of images.
C9_ContinueOnError ==
    continue_on_error =>
        /\ executed = FilesUpTo(image_idx)
        /\ Len(all_results) + Len(failed_images) = Len(executed)
        /\ FilesOf(all_results) \cup FilesOf(failed_images) = 1..image_idx
        /\ FilesOf(all_results) \cap FilesOf(failed_images) = {}
        /\ \A k \in 1..Len(failed_images) :
             /\ failed_images[k].error /= NoError
             /\ failed_images[k].error.message \in ErrorMessages
        /\ batch_pc \in {"save", "done"} =>
             /\ image_idx = num_images
             /\ Len(all_results) + Len(failed_images) = num_images
             /\ batch_summary.total_images = Len(all_results)

\* a finished batch in which the first image failed and later ones succeeded
C9_Witness ==
    /\ continue_on_error
    /\ batch_pc = "done"
    /\ num_images = 3
    /\ Len(failed_images) >= 1
    /\ failed_images[1].file = 1
    /\ Len(all_results) >= 1

\* the batch was aborted by a failed image
Aborted == batch_pc = "exited" /\ failed_images /= <<>>

\* C10 as stated: without --continue-on-error the first failure aborts the
\* batch, no later image is executed, and a batch summary is produced that
\* reflects the images that succeeded before it.
C10_AbortProducesSummary ==
    (~continue_on_error /\ Aborted) =>
        /\ Len(executed) = Len(all_results) + 1
        /\ batch_summary.produced
        /\ batch_summary.total_images = Len(all_results)

\* C10 amended: without --continue-on-error the first failure ends the
\* script with exit code 1 at once: the images executed are exactly those up
\* to the failing one, all_results holds the ones before it, failed_images
\* the triggering failure alone, and no batch summary is ever produced.
C10_FailFastAbort ==
    ~continue_on_error =>
        /\ executed = FilesUpTo(image_idx)
        /\ Len(failed_images) <= 1
        /\ failed_images /= <<>> =>
             /\ Aborted
             /\ batch_exit = 1
             /\ failed_images[1].file = image_idx
             /\ FilesOf(all_results) = 1..(image_idx - 1)
             /\ ~batch_summary.produced
        /\ batch_summary.produced => Len(all_results) = num_images

\* a batch aborted at its second image, with one image never executed
C10_Witness ==
    /\ ~continue_on_error
    /\ Aborted
    /\ Len(all_results) = 1
    /\ Len(executed) = 2
    /\ num_images = 3

\* C11: the script's exit code is 0 exactly when no image failed, or when
\* --continue-on-error is set and at least one image succeeded; it is
\* non-zero otherwise, in particular when --continue-on-error is set and
\* every image failed.  Stated for a batch that found images to process.
C11_ExitCodeReflectsFailures ==
    (batch_exit /= -1 /\ num_images > 0) =>
        (batch_exit = 0 <=>
            \/ failed_images = <<>>
            \/ continue_on_error /\ all_results /= <<>>)

\* the executed images whose pipeline run returned status 'success'
Successful ==
    {k \in 1..Len(pipeline_outputs) : pipeline_outputs[k].status = "success"}

\* the sum of val[k] over the indices k in S
RECURSIVE SumOver(_, _)
SumOver(S, val) ==
    IF S = {} THEN 0
    ELSE LET k == CHOOSE x \in S : TRUE
         IN val[k] + SumOver(S \ {k}, val)

\* C12: in the batch summary the merged count of every class is the sum of
\* that class's count over the successful images only, and total_organisms
\* is the sum of the successful images' totals; an image whose pipeline run
\* failed adds to no merged count and to no total.
C12_MergedCountsFromSuccesses ==
    batch_summary.produced =>
        /\ batch_summary.total_images = Cardinality(Successful)
        /\ \A c \in Classes :
             batch_summary.species_counts[c] =
                SumOver(Successful,
                        [k \in 1..Len(pipeline_outputs) |->
                            pipeline_outputs[k].summary.counts_by_class[c]])
        /\ batch_summary.total_organisms =
                SumOver(Successful,
                        [k \in 1..Len(pipeline_outputs) |->
                            pipeline_outputs[k].summary.total_organisms])

\* a finished batch of three images: one failed run that carried counts and
\* two successful ones whose copepod counts add up to 3
C12_Witness ==
    /\ batch_pc = "done"
    /\ Len(failed_images) = 1
    /\ \E k \in 1..Len(pipeline_outputs) :
         /\ pipeline_outputs[k].status = "error"
         /\ pipeline_outputs[k].summary = MixedSample
    /\ Cardinality(Successful) = 2
    /\ batch_summary.species_counts["copepod"] = 3
    /\ batch_summary.total_organisms = 4

\* C13: the summary's average Shannon and Simpson values are the sum of the
\* value over the successful images divided by the number of successful
\* images (0 when there is none); failed images enter neither the sum nor
\* the divisor, and the merged class counts play no part.
C13_MeanOfSampleDiversity ==
    batch_summary.produced =>
        LET n == num_images - Len(failed_images)
            shannon == SumOver(Successful,
                               [k \in 1..Len(pipeline_outputs) |->
                                   pipeline_outputs[k].summary.shannon_diversity])
            simpson == SumOver(Successful,
                               [k \in 1..Len(pipeline_outputs) |->
                                   pipeline_outputs[k].summary.simpson])
        IN /\ n = Cardinality(Successful)
           /\ batch_summary.average_diversity.shannon =
                 IF n = 0 THEN Zero ELSE Ratio(shannon, n)
           /\ batch_summary.average_diversity.simpson =
                 IF n = 0 THEN Zero ELSE Ratio(simpson, n)

\* a finished batch whose merged counts are evenly mixed (2 copepods, 2
\* diatoms) while each of the two successful images held one class only, and
\* whose failed image carried a mixed sample: the averages are 0/2 and 2000/2
C13_Witness ==
    /\ batch_pc = "done"
    /\ Len(failed_images) = 1
    /\ \E k \in 1..Len(pipeline_outputs) :
         /\ pipeline_outputs[k].status = "error"
         /\ pipeline_outputs[k].summary = MixedSample
    /\ batch_summary.species_counts = [c \in Classes |-> 2]
    /\ batch_summary.average_diversity.shannon = Ratio(0, 2)
    /\ batch_summary.average_diversity.simpson = Ratio(2000, 2)

----------------------------------------------------------------------------
\* Further properties of the buffered session

\* C14: frames leave frame_queue in the order they were put.  Frames are
\* numbered by frames_captured when they are put, so the order of putting is
\* the order of their numbers: the frames taken so far, followed by the
\* frames still waiting, are in increasing order, and the frame the worker
\* works on is the one taken last.
C14_FifoOrder ==
    LET order == dequeued \o frame_queue
    IN /\ \A i, j \in 1..Len(order) : i < j => order[i] < order[j]
       /\ cur_frame /= 0 => cur_frame = dequeued[Len(dequeued)]
       /\ \A k \in 1..Len(frame_queue) : cur_frame < frame_queue[k]

\* the worker took frame 2 after frame 1 while frame 3 was waiting behind it
C14_Witness ==
    /\ dequeued = <<1, 2>>
    /\ cur_frame = 2
    /\ frame_queue = <<3>>

\* C15: the statistics after merging a set of successful results do not
\* depend on the order of the merges: whichever results have been merged, in
\* whatever order, frames_processed is their number, total_organisms the sum
\* of their organism counts and every species count the sum of their counts
\* of that species; so every order of merging them all ends in the same
\* totals.
C15_MergeOrderIndependent ==
    LET idx == 1..Len(merge_inputs)
    IN /\ merge_stats.frames_processed = Cardinality(merge_done)
       /\ merge_stats.total_organisms =
             SumOver(merge_done, [k \in idx |-> Len(merge_inputs[k])])
       /\ \A s \in Species :
             merge_stats.species_counts[s] =
                SumOver(merge_done,
                        [k \in idx |->
                            Cardinality({i \in 1..Len(merge_inputs[k]) :
                                s = IF merge_inputs[k][i] = NoClass
                                    THEN "unknown" ELSE merge_inputs[k][i]})])

\* the second and third result were merged before the first, and all three
\* hold an organism of the same species
C15_Witness ==
    /\ merge_done = {2, 3}
    /\ \A k \in 1..3 : merge_inputs[k] = <<"copepod">>
    /\ merge_stats.species_counts["copepod"] = 2

\* the worker has finished with the frame in hand and is about to call
\* task_done
PassOver == worker_pc = "task_done"

\* the frame in hand has been merged: its result is the last one put on
\* results_queue
Merged ==
    /\ results_queue /= <<>>
    /\ results_queue[Len(results_queue)] = cur_frame

SpeciesOf(org) == IF org = NoClass THEN "unknown" ELSE org

\* the worker leaves the with-block of lines 134-140
MergeStep == worker_pc = "merge" /\ worker_pc' /= "merge"

C17_LockHeldOnlyForMerge ==
    /\ lock = "worker" <=> worker_pc = "merge"
    /\ lock = "producer" <=> prod_pc = "overlay_read"
    /\ worker_pc \in {"get", "process"} =>
         /\ prod_pc = "put" => ENABLED PutFrame
         /\ prod_pc = "overlay" => ENABLED OverlayAcquire

\* the producer reads the statistics under the lock while the worker runs a
\* pass on a frame
C17_Witness ==
    /\ worker_pc = "process"
    /\ cur_frame /= 0
    /\ prod_pc = "overlay_read"
    /\ lock = "producer"

\* the recording loop has been left: the finally block runs or has run
Stopping == stop_reason /= "none"

\* C18: once the session is stopping, and so once the flag self.processing
\* has been cleared, no frame is put on frame_queue any more and no frame is
\* counted; the worker leaves its loop only at the loop test with the flag
\* cleared and no frame in hand, and when it has stopped every frame that
\* was put has been taken and finished.
C18_StopAfterInFlightFrame ==
    /\ [][Stopping =>
            /\ Len(frame_queue') <= Len(frame_queue)
            /\ unfinished_tasks' <= unfinished_tasks
            /\ frames_captured' = frames_captured]_vars
    /\ [][(worker_pc /= "stopped" /\ worker_pc' = "stopped") =>
            /\ worker_pc = "loop"
            /\ ~processing
            /\ cur_frame = 0
            /\ pass_kind = "none"]_vars
    /\ []((prod_pc \in {"worker_join", "annotate", "summary", "done"}) =>
            /\ ~processing
            /\ Stopping)
    /\ [](worker_pc = "stopped" =>
            /\ cur_frame = 0
            /\ frame_queue = <<>>
            /\ unfinished_tasks = 0)

\* the stop comes ('q' pressed, the producer waits in frame_queue.join())
\* while the worker runs a pass on one frame and another frame waits
C18_Witness ==
    /\ stop_reason = "quit"
    /\ prod_pc = "join"
    /\ worker_pc = "process"
    /\ cur_frame /= 0
    /\ frame_queue /= <<>>

\* the frames the producer has handed to frame_queue.put so far: the frames
\* counted, less the one an interrupt caught between counting and putting
Produced == frames_captured - unqueued

\* C19: in a session whose N produced frames are no more than queue_size, no
\* put finds the queue full: nothing is dropped, and once the finally block
\* has waited for the queue the worker has taken every one of the N frames,
\* in order.
C19_NoDropWhenCapacitySuffices ==
    Produced <= queue_size =>
        /\ queue_full_warnings = 0
        /\ prod_pc = "put" => Len(frame_queue) < queue_size
        /\ Len(frame_queue) + Len(dequeued) =
              IF prod_pc = "put" THEN Produced - 1 ELSE Produced
        /\ AfterJoin => dequeued = [k \in 1..Produced |-> k]

\* a session of two frames with queue_size 2: both frames were put without
\* a drop and wait in the queue together when the producer stops
C19_Witness ==
    /\ queue_size = 2
    /\ frames_captured = 2
    /\ unqueued = 0
    /\ frame_queue = <<1, 2>>
    /\ prod_pc = "join"

----------------------------------------------------------------------------
\* Properties of the configuration validation

\* the required sections the configuration lacks
MissingSections == {StageOrder[k] : k \in 1..NumStages} \ cfg.present

\* the required keys the configuration lacks in the sections it has
MissingKeys ==
    {i \in 1..Len(RequiredKeys) :
        RequiredKeys[i].section \in cfg.present /\ ~cfg.keys[i].present}

\* the keys whose value is outside the key's range
OutOfRange ==
    {i \in 1..Len(RequiredKeys) :
        /\ cfg.keys[i].present
        /\ ~InRange(RequiredKeys[i].key, cfg.keys[i].value)}

\* C20: one validation pass over a configuration that lacks K required
\* sections or keys returns K distinct violations for them, each naming its
\* section and key, and one more for every out-of-range value; it does not
\* stop at the first violation, and with K >= 1 it never answers valid or
\* returns an empty list; main logs every one of the violations.
C20_ValidationComplete ==
    val_pc \in {"validated", "exited", "proceed"} =>
        LET msgs == {val_errors[j] : j \in 1..Len(val_errors)}
            K == Cardinality(MissingSections) + Cardinality(MissingKeys)
        IN /\ \A sec \in MissingSections :
                Violation(sec, "", "missing_section") \in msgs
           /\ \A i \in MissingKeys :
                Violation(RequiredKeys[i].section, RequiredKeys[i].key,
                          "missing_key") \in msgs
           /\ \A i \in OutOfRange :
                Violation(RequiredKeys[i].section, RequiredKeys[i].key,
                          "out_of_range") \in msgs
           /\ Cardinality(msgs) = K + Cardinality(OutOfRange)
           /\ Len(val_errors) = Cardinality(msgs)
           /\ K >= 1 => ~val_is_valid /\ val_errors /= <<>>
           /\ val_is_valid <=> val_errors = <<>>
           /\ val_pc = "exited" => val_logged = val_errors
           /\ val_pc = "proceed" => K = 0

\* main has logged the violations of a configuration that lacks the export
\* section and segmentation's maxArea and holds confidenceThreshold 1.5 and
\* bloomDominanceThreshold 0: four violations, none of them left out
C20_Witness ==
    /\ val_pc = "exited"
    /\ MissingSections = {"export"}
    /\ MissingKeys = {2}
    /\ OutOfRange = {3, 4}
    /\ Len(val_logged) = 4

----------------------------------------------------------------------------
\* Properties of counting and analytics

\* the class counts {A: a, B: b}
CountsAB(a, b) == [l \in Labels |-> IF l = "A" THEN a ELSE b]

\* the species for which an alert was emitted
AlertSpecies == {al.species : al \in bloom_alerts}

\* C21: analytics emits a bloom alert for a class exactly when the class's
\* share of the total count is strictly greater than the threshold, one
\* alert per such class, so several alerts can come from one set of counts;
\* for {A:30, B:70} and threshold 0.3 there is an alert for B and none for A,
\* whose share equals the threshold.
C21_BloomStrictlyAboveThreshold ==
    an_pc = "done" =>
        LET total == TotalCount(class_counts)
            over == {c \in DOMAIN class_counts :
                        total > 0 /\ class_counts[c] * 100 > bloom_threshold * total}
        IN /\ AlertSpecies = over
           /\ Cardinality(bloom_alerts) = Cardinality(over)
           /\ \A al \in bloom_alerts :
                /\ al.thresholdUsed = bloom_threshold
                /\ al.dominanceRatio = Ratio(class_counts[al.species], total)
           /\ (class_counts = CountsAB(30, 70) /\ bloom_threshold = 30) =>
                AlertSpecies = {"B"}
           /\ (class_counts = CountsAB(1, 1) /\ bloom_threshold = 30) =>
                AlertSpecies = {"A", "B"}

\* analytics has run on {A:30, B:70} with threshold 0.3: one alert, for B
C21_Witness ==
    /\ an_pc = "done"
    /\ class_counts = CountsAB(30, 70)
    /\ bloom_threshold = 30
    /\ Cardinality(bloom_alerts) = 1
    /\ AlertSpecies = {"B"}

\* C23: counting builds the class counts from exactly the detections whose
\* confidence meets the threshold: each class's count is the number of such
\* detections with that label, a class without one has no entry, and
\* organismsAboveThreshold is the sum of the counts; threshold 0.5 with
\* confidences [0.9, 0.4, 0.6] and labels [A, B, A] gives {A:2} and 2.
C23_CountsFromQualifyingDetections ==
    (an_entry = "counting" /\ an_pc \in {"analytics", "done"}) =>
        LET n(l) == Cardinality({i \in 1..Len(detections) :
                       /\ detections[i].label = l
                       /\ ~(detections[i].confidence < confidence_threshold)})
        IN /\ DOMAIN class_counts = {l \in Labels : n(l) > 0}
           /\ \A l \in DOMAIN class_counts : class_counts[l] = n(l)
           /\ organisms_above = n("A") + n("B")
           /\ organisms_above = TotalCount(class_counts)
           /\ (/\ confidence_threshold = 50
               /\ detections = <<[label |-> "A", confidence |-> 90],
                                 [label |-> "B", confidence |-> 40],
                                 [label |-> "A", confidence |-> 60]>>) =>
                /\ class_counts = [l \in {"A"} |-> 2]
                /\ organisms_above = 2

\* counting has run on confidences [0.9, 0.5, 0.4] with labels [A, B, A]
\* and threshold 0.5: the detection at the threshold counts, the one below
\* does not
C23_Witness ==
    /\ an_entry = "counting"
    /\ an_pc = "analytics"
    /\ confidence_threshold = 50
    /\ detections = <<[label |-> "A", confidence |-> 90],
                      [label |-> "B", confidence |-> 50],
                      [label |-> "A", confidence |-> 40]>>
    /\ class_counts = CountsAB(1, 1)
    /\ organisms_above = 2

\* the classes that have organisms
NonZero == {c \in DOMAIN class_counts : class_counts[c] /= 0}

\* C24: speciesRichness is the number of classes with count > 0, whatever
\* zero-count entries the class counts hold; shannon is exactly 0 for class
\* counts without organisms and for class counts with one species; simpson
\* of {A:1, B:1} is exactly 0.5.
C24_DiversityEdgeCases ==
    an_pc = "done" =>
        /\ diversity.speciesRichness = Cardinality(NonZero)
        /\ Cardinality(NonZero) <= 1 => diversity.shannon = 0
        /\ Cardinality(NonZero) >= 2 => diversity.shannon > 0
        /\ class_counts = CountsAB(1, 1) =>
             2 * diversity.simpson.num = diversity.simpson.den
        /\ Cardinality(NonZero) = 1 =>
             diversity.simpson.num = diversity.simpson.den

\* analytics has run on {A:5, B:0}: richness 1 with the zero-count entry
\* ignored, shannon 0
C24_Witness ==
    /\ an_pc = "done"
    /\ class_counts = CountsAB(5, 0)
    /\ diversity.speciesRichness = 1
    /\ diversity.shannon = 0

----------------------------------------------------------------------------
\* Two runs of the batch

----------------------------------------------------------------------------
\* Backpressure policy

\* the frame numbers held in a sequence of frames
FramesIn(q) == {q[i] : i \in 1..Len(q)}

\* C26: the policy is drop-newest. A put that finds the queue full leaves the
\* queue as it is, frame for frame and in the same order, and the incoming
\* frame (number frames_captured) is in the queue neither then nor later, so
\* it is never dequeued; the frames that were queued are all dequeued by the
\* time join() has returned, the refused ones being the only ones lost.
C26_DropNewest ==
    /\ [][DropStep =>
            /\ frame_queue' = frame_queue
            /\ frames_captured \notin FramesIn(frame_queue')
            /\ dequeued' = dequeued]_vars
    /\ [][(frame_queue' /= frame_queue) =>
            \/ /\ prod_pc = "put"
               /\ Len(frame_queue) < queue_size
               /\ frame_queue' = Append(frame_queue, frames_captured)
            \/ /\ worker_pc = "get"
               /\ frame_queue /= <<>>
               /\ frame_queue' = Tail(frame_queue)
               /\ dequeued' = Append(dequeued, Head(frame_queue))]_vars
    /\ [](AfterJoin =>
            Len(dequeued) + queue_full_warnings + unqueued = frames_captured)

\* frames 1 and 2 fill a queue of two, frame 3 has just been refused and the
\* queue still holds 1 and 2 in that order
C26_Witness ==
    /\ queue_size = 2
    /\ frame_queue = <<1, 2>>
    /\ frames_captured = 3
    /\ queue_full_warnings = 1
    /\ prod_pc = "overlay"

----------------------------------------------------------------------------
\* Termination of the shutdown

\* C27: the shutdown of a live session always terminates: once the producer
\* has left its loop and waits in frame_queue.join(), the worker being
\* scheduled fairly, record_and_process eventually returns, also when the
\* worker's bookkeeping raised for some frame.
C27_ShutdownTerminates ==
    (prod_pc = "join") ~> (prod_pc = "done")

----------------------------------------------------------------------------
\* Consistency of the statistics

\* C28: whenever the session lock is not held, total_organisms is the sum of
\* all species counts, and nothing has been counted before a frame was
\* counted in frames_processed.
C28_TotalIsSumOfSpecies ==
    (lock = "free") =>
        /\ total_organisms = SumOver(Species, species_counts)
        /\ (frames_processed = 0 => total_organisms = 0)

----------------------------------------------------------------------------
\* Bounds and uniqueness

\* no frame number occurs twice in a sequence of frames
NoDuplicates(q) ==
    \A i, j \in 1..Len(q) : q[i] = q[j] => i = j

\* C29: in every state of a session the frame queue holds at most queue_size
\* frames, frames_processed does not exceed frames_captured, every frame
\* number is dequeued at most once (it is not dequeued again and is no longer
\* in the queue once taken) and is merged at most once, so results_queue
\* never holds two results of the same frame.
C29_BoundedAndAtMostOnce ==
    /\ Len(frame_queue) <= queue_size
    /\ frames_processed <= frames_captured
    /\ frames_processed <= Len(dequeued)
    /\ NoDuplicates(dequeued)
    /\ NoDuplicates(frame_queue)
    /\ FramesIn(frame_queue) \cap FramesIn(dequeued) = {}
    /\ NoDuplicates(results_queue)
    /\ FramesIn(results_queue) \subseteq FramesIn(dequeued)
    /\ FramesIn(dequeued) \cup FramesIn(frame_queue) \subseteq 1..frames_captured

\* frames 1 and 2 have gone through the worker and their results are queued,
\* frame 3 fills the queue of size one
C29_Witness ==
    /\ queue_size = 1
    /\ results_queue = <<1, 2>>
    /\ frame_queue = <<3>>
    /\ frames_processed = 2

----------------------------------------------------------------------------
\* The tracker's bookkeeping

\* a step of process_frame, hence one update of the tracker
UpdateStep == frame_count' = frame_count + 1

\* the objects an update gave an input centroid to
Matched(asg) == {asg[j] : j \in DOMAIN asg}

\* what holds of the tracker between two calls
TrackerConsistent ==
    /\ DOMAIN objects = DOMAIN disappeared
    /\ \A id \in DOMAIN objects :
          /\ id < next_object_id
          /\ disappeared[id] \in 0..max_disappeared
    /\ input_centroids /= <<>> =>
          /\ DOMAIN assigned = 1..Len(input_centroids)
          /\ \A j \in DOMAIN assigned :
                /\ assigned[j] \in DOMAIN objects
                /\ objects[assigned[j]] = input_centroids[j]
                /\ disappeared[assigned[j]] = 0
          /\ \A i, j \in DOMAIN assigned : assigned[i] = assigned[j] => i = j
          /\ dup_free =>
                \A j \in DOMAIN assigned :
                    {id \in DOMAIN objects : objects[id] = input_centroids[j]}
                        = {assigned[j]}
    /\ total_unique_count = next_object_id
    /\ counted_ids = 0..(next_object_id - 1)

\* what an update does to the objects it finds
UpdateEffect ==
    /\ next_object_id' >= next_object_id
    /\ DOMAIN objects' \ DOMAIN objects
         = next_object_id..(next_object_id' - 1)
    /\ new_ids' = DOMAIN objects' \ DOMAIN objects
    /\ \A id \in DOMAIN objects :
          IF id \in Matched(assigned')
          THEN id \in DOMAIN objects' /\ disappeared'[id] = 0
          ELSE IF disappeared[id] + 1 > max_disappeared
          THEN id \notin DOMAIN objects'
          ELSE /\ id \in DOMAIN objects'
               /\ disappeared'[id] = disappeared[id] + 1
               /\ objects'[id] = objects[id]

\* C30 as stated: after an update with a non-empty input every centroid of
\* the input is the position of exactly one tracked object.
C30_CentroidOfExactlyOneObject ==
    input_centroids /= <<>> =>
        \A j \in 1..Len(input_centroids) :
            Cardinality({id \in DOMAIN objects :
                            objects[id] = input_centroids[j]}) = 1

\* C30 amended: after any sequence of updates: ids are given out in rising order
\* and never a second time (a new object's id is next_object_id, above every
\* id given before); objects and disappeared have the same keys; an object
\* that an update matches has its counter set to 0, an unmatched one has it
\* raised by one and is deregistered exactly when that makes it exceed
\* max_disappeared; every centroid of a non-empty input is the position of
\* one tracked object of its own (of exactly one object in all when no
\* input held the same centroid twice); and total_unique_count is the number
\* of ids registered since the last reset.
C30_TrackerBookkeeping ==
    /\ []TrackerConsistent
    /\ [][UpdateStep => UpdateEffect]_vars

\* object 1 has been deregistered after two updates without a match, in an
\* update that matched object 0 and registered object 2
C30_Witness ==
    /\ max_disappeared = 1
    /\ next_object_id = 3
    /\ DOMAIN objects = {0, 2}
    /\ new_ids = {2}
    /\ 0 \in Matched(assigned)
    /\ total_unique_count = 3

====
